---- MODULE Spec2Model ----
(***************************************************************************)
(* Model of src/braille01.py: the chorded-key Braille decoder              *)
(* (convert_braille_input, dots_to_letter), the dictionary                 *)
(* (add_word, learn_correction), the edit distance (calculate_similarity)  *)
(* and the correction pipeline (find_suggestions, autocorrect) of class    *)
(* SimpleBrailleAutocorrect.                                               *)
(*                                                                         *)
(* A Python str is modelled as the sequence of its code points, the        *)
(* values ord() gives for its characters: "helo" is <<104,101,108,111>>    *)
(* and "" is << >>.                                                        *)
(***************************************************************************)
EXTENDS Integers, Sequences, FiniteSets, TLC

VARIABLES dictionary, word_count, learned_fixes, hash_order, call, ret

vars == <<dictionary, word_count, learned_fixes, hash_order, call, ret>>

Range(s) == {s[i] : i \in DOMAIN s}

Min2(a, b) == IF a <= b THEN a ELSE b

Max2(a, b) == IF a >= b THEN a ELSE b

\* A sequence with its elements computed: the sequence operators of TLC
\* return their result element by element, where a function expression is
\* evaluated anew at every application.
List(f) == SubSeq(f, 1, Len(f))

\* ''.join(pieces)
RECURSIVE join(_)
join(pieces) == IF pieces = << >> THEN << >> ELSE Head(pieces) \o join(Tail(pieces))

(***************************************************************************)
(* The str methods the program calls.  Their tables are those of the       *)
(* Unicode database of the interpreter (Python 3.11, Unicode 14.0).        *)
(***************************************************************************)

\* str.lower() of one character: <<first, last, step, offset>> stands for the
\* characters first, first + step, ... up to last, each of which becomes the
\* character `offset` code points further on.
LowerRuns == {
    <<65,90,1,32>>, <<192,214,1,32>>, <<216,222,1,32>>, <<256,302,2,1>>,
    <<306,310,2,1>>, <<313,327,2,1>>, <<330,374,2,1>>, <<376,376,1,-121>>,
    <<377,381,2,1>>, <<385,385,1,210>>, <<386,388,2,1>>, <<390,390,1,206>>,
    <<391,391,1,1>>, <<393,394,1,205>>, <<395,395,1,1>>, <<398,398,1,79>>,
    <<399,399,1,202>>, <<400,400,1,203>>, <<401,401,1,1>>, <<403,403,1,205>>,
    <<404,404,1,207>>, <<406,406,1,211>>, <<407,407,1,209>>, <<408,408,1,1>>,
    <<412,412,1,211>>, <<413,413,1,213>>, <<415,415,1,214>>, <<416,420,2,1>>,
    <<422,422,1,218>>, <<423,423,1,1>>, <<425,425,1,218>>, <<428,428,1,1>>,
    <<430,430,1,218>>, <<431,431,1,1>>, <<433,434,1,217>>, <<435,437,2,1>>,
    <<439,439,1,219>>, <<440,440,1,1>>, <<444,444,1,1>>, <<452,452,1,2>>,
    <<453,453,1,1>>, <<455,455,1,2>>, <<456,456,1,1>>, <<458,458,1,2>>,
    <<459,475,2,1>>, <<478,494,2,1>>, <<497,497,1,2>>, <<498,500,2,1>>,
    <<502,502,1,-97>>, <<503,503,1,-56>>, <<504,542,2,1>>, <<544,544,1,-130>>,
    <<546,562,2,1>>, <<570,570,1,10795>>, <<571,571,1,1>>, <<573,573,1,-163>>,
    <<574,574,1,10792>>, <<577,577,1,1>>, <<579,579,1,-195>>,
    <<580,580,1,69>>, <<581,581,1,71>>, <<582,590,2,1>>, <<880,882,2,1>>,
    <<886,886,1,1>>, <<895,895,1,116>>, <<902,902,1,38>>, <<904,906,1,37>>,
    <<908,908,1,64>>, <<910,911,1,63>>, <<913,929,1,32>>, <<931,939,1,32>>,
    <<975,975,1,8>>, <<984,1006,2,1>>, <<1012,1012,1,-60>>, <<1015,1015,1,1>>,
    <<1017,1017,1,-7>>, <<1018,1018,1,1>>, <<1021,1023,1,-130>>,
    <<1024,1039,1,80>>, <<1040,1071,1,32>>, <<1120,1152,2,1>>,
    <<1162,1214,2,1>>, <<1216,1216,1,15>>, <<1217,1229,2,1>>,
    <<1232,1326,2,1>>, <<1329,1366,1,48>>, <<4256,4293,1,7264>>,
    <<4295,4295,1,7264>>, <<4301,4301,1,7264>>, <<5024,5103,1,38864>>,
    <<5104,5109,1,8>>, <<7312,7354,1,-3008>>, <<7357,7359,1,-3008>>,
    <<7680,7828,2,1>>, <<7838,7838,1,-7615>>, <<7840,7934,2,1>>,
    <<7944,7951,1,-8>>, <<7960,7965,1,-8>>, <<7976,7983,1,-8>>,
    <<7992,7999,1,-8>>, <<8008,8013,1,-8>>, <<8025,8031,2,-8>>,
    <<8040,8047,1,-8>>, <<8072,8079,1,-8>>, <<8088,8095,1,-8>>,
    <<8104,8111,1,-8>>, <<8120,8121,1,-8>>, <<8122,8123,1,-74>>,
    <<8124,8124,1,-9>>, <<8136,8139,1,-86>>, <<8140,8140,1,-9>>,
    <<8152,8153,1,-8>>, <<8154,8155,1,-100>>, <<8168,8169,1,-8>>,
    <<8170,8171,1,-112>>, <<8172,8172,1,-7>>, <<8184,8185,1,-128>>,
    <<8186,8187,1,-126>>, <<8188,8188,1,-9>>, <<8486,8486,1,-7517>>,
    <<8490,8490,1,-8383>>, <<8491,8491,1,-8262>>, <<8498,8498,1,28>>,
    <<8544,8559,1,16>>, <<8579,8579,1,1>>, <<9398,9423,1,26>>,
    <<11264,11311,1,48>>, <<11360,11360,1,1>>, <<11362,11362,1,-10743>>,
    <<11363,11363,1,-3814>>, <<11364,11364,1,-10727>>, <<11367,11371,2,1>>,
    <<11373,11373,1,-10780>>, <<11374,11374,1,-10749>>,
    <<11375,11375,1,-10783>>, <<11376,11376,1,-10782>>, <<11378,11378,1,1>>,
    <<11381,11381,1,1>>, <<11390,11391,1,-10815>>, <<11392,11490,2,1>>,
    <<11499,11501,2,1>>, <<11506,11506,1,1>>, <<42560,42604,2,1>>,
    <<42624,42650,2,1>>, <<42786,42798,2,1>>, <<42802,42862,2,1>>,
    <<42873,42875,2,1>>, <<42877,42877,1,-35332>>, <<42878,42886,2,1>>,
    <<42891,42891,1,1>>, <<42893,42893,1,-42280>>, <<42896,42898,2,1>>,
    <<42902,42920,2,1>>, <<42922,42922,1,-42308>>, <<42923,42923,1,-42319>>,
    <<42924,42924,1,-42315>>, <<42925,42925,1,-42305>>,
    <<42926,42926,1,-42308>>, <<42928,42928,1,-42258>>,
    <<42929,42929,1,-42282>>, <<42930,42930,1,-42261>>, <<42931,42931,1,928>>,
    <<42932,42946,2,1>>, <<42948,42948,1,-48>>, <<42949,42949,1,-42307>>,
    <<42950,42950,1,-35384>>, <<42951,42953,2,1>>, <<42960,42960,1,1>>,
    <<42966,42968,2,1>>, <<42997,42997,1,1>>, <<65313,65338,1,32>>,
    <<66560,66599,1,40>>, <<66736,66771,1,40>>, <<66928,66964,2,39>>,
    <<66929,66937,2,39>>, <<66941,66953,2,39>>, <<66957,66961,2,39>>,
    <<66965,66965,1,39>>, <<68736,68786,1,64>>, <<71840,71871,1,32>>,
    <<93760,93791,1,32>>, <<125184,125217,1,34>>
    }

\* The characters str.lower() replaces by more than one character.
LowerSpecial == {
    <<304, <<105,775>>>>
    }

\* str.upper() of one character, in the form of LowerRuns.
UpperRuns == {
    <<97,122,1,-32>>, <<181,181,1,743>>, <<224,246,1,-32>>, <<248,254,1,-32>>,
    <<255,255,1,121>>, <<257,303,2,-1>>, <<305,305,1,-232>>, <<307,311,2,-1>>,
    <<314,328,2,-1>>, <<331,375,2,-1>>, <<378,382,2,-1>>, <<383,383,1,-300>>,
    <<384,384,1,195>>, <<387,389,2,-1>>, <<392,392,1,-1>>, <<396,396,1,-1>>,
    <<402,402,1,-1>>, <<405,405,1,97>>, <<409,409,1,-1>>, <<410,410,1,163>>,
    <<414,414,1,130>>, <<417,421,2,-1>>, <<424,424,1,-1>>, <<429,429,1,-1>>,
    <<432,432,1,-1>>, <<436,438,2,-1>>, <<441,441,1,-1>>, <<445,445,1,-1>>,
    <<447,447,1,56>>, <<453,453,1,-1>>, <<454,454,1,-2>>, <<456,456,1,-1>>,
    <<457,457,1,-2>>, <<459,459,1,-1>>, <<460,460,1,-2>>, <<462,476,2,-1>>,
    <<477,477,1,-79>>, <<479,495,2,-1>>, <<498,498,1,-1>>, <<499,499,1,-2>>,
    <<501,501,1,-1>>, <<505,543,2,-1>>, <<547,563,2,-1>>, <<572,572,1,-1>>,
    <<575,576,1,10815>>, <<578,578,1,-1>>, <<583,591,2,-1>>,
    <<592,592,1,10783>>, <<593,593,1,10780>>, <<594,594,1,10782>>,
    <<595,595,1,-210>>, <<596,596,1,-206>>, <<598,599,1,-205>>,
    <<601,601,1,-202>>, <<603,603,1,-203>>, <<604,604,1,42319>>,
    <<608,608,1,-205>>, <<609,609,1,42315>>, <<611,611,1,-207>>,
    <<613,613,1,42280>>, <<614,614,1,42308>>, <<616,616,1,-209>>,
    <<617,617,1,-211>>, <<618,618,1,42308>>, <<619,619,1,10743>>,
    <<620,620,1,42305>>, <<623,623,1,-211>>, <<625,625,1,10749>>,
    <<626,626,1,-213>>, <<629,629,1,-214>>, <<637,637,1,10727>>,
    <<640,640,1,-218>>, <<642,642,1,42307>>, <<643,643,1,-218>>,
    <<647,647,1,42282>>, <<648,648,1,-218>>, <<649,649,1,-69>>,
    <<650,651,1,-217>>, <<652,652,1,-71>>, <<658,658,1,-219>>,
    <<669,669,1,42261>>, <<670,670,1,42258>>, <<837,837,1,84>>,
    <<881,883,2,-1>>, <<887,887,1,-1>>, <<891,893,1,130>>, <<940,940,1,-38>>,
    <<941,943,1,-37>>, <<945,961,1,-32>>, <<962,962,1,-31>>,
    <<963,971,1,-32>>, <<972,972,1,-64>>, <<973,974,1,-63>>,
    <<976,976,1,-62>>, <<977,977,1,-57>>, <<981,981,1,-47>>,
    <<982,982,1,-54>>, <<983,983,1,-8>>, <<985,1007,2,-1>>,
    <<1008,1008,1,-86>>, <<1009,1009,1,-80>>, <<1010,1010,1,7>>,
    <<1011,1011,1,-116>>, <<1013,1013,1,-96>>, <<1016,1016,1,-1>>,
    <<1019,1019,1,-1>>, <<1072,1103,1,-32>>, <<1104,1119,1,-80>>,
    <<1121,1153,2,-1>>, <<1163,1215,2,-1>>, <<1218,1230,2,-1>>,
    <<1231,1231,1,-15>>, <<1233,1327,2,-1>>, <<1377,1414,1,-48>>,
    <<4304,4346,1,3008>>, <<4349,4351,1,3008>>, <<5112,5117,1,-8>>,
    <<7296,7296,1,-6254>>, <<7297,7297,1,-6253>>, <<7298,7298,1,-6244>>,
    <<7299,7300,1,-6242>>, <<7301,7301,1,-6243>>, <<7302,7302,1,-6236>>,
    <<7303,7303,1,-6181>>, <<7304,7304,1,35266>>, <<7545,7545,1,35332>>,
    <<7549,7549,1,3814>>, <<7566,7566,1,35384>>, <<7681,7829,2,-1>>,
    <<7835,7835,1,-59>>, <<7841,7935,2,-1>>, <<7936,7943,1,8>>,
    <<7952,7957,1,8>>, <<7968,7975,1,8>>, <<7984,7991,1,8>>,
    <<8000,8005,1,8>>, <<8017,8023,2,8>>, <<8032,8039,1,8>>,
    <<8048,8049,1,74>>, <<8050,8053,1,86>>, <<8054,8055,1,100>>,
    <<8056,8057,1,128>>, <<8058,8059,1,112>>, <<8060,8061,1,126>>,
    <<8112,8113,1,8>>, <<8126,8126,1,-7205>>, <<8144,8145,1,8>>,
    <<8160,8161,1,8>>, <<8165,8165,1,7>>, <<8526,8526,1,-28>>,
    <<8560,8575,1,-16>>, <<8580,8580,1,-1>>, <<9424,9449,1,-26>>,
    <<11312,11359,1,-48>>, <<11361,11361,1,-1>>, <<11365,11365,1,-10795>>,
    <<11366,11366,1,-10792>>, <<11368,11372,2,-1>>, <<11379,11379,1,-1>>,
    <<11382,11382,1,-1>>, <<11393,11491,2,-1>>, <<11500,11502,2,-1>>,
    <<11507,11507,1,-1>>, <<11520,11557,1,-7264>>, <<11559,11559,1,-7264>>,
    <<11565,11565,1,-7264>>, <<42561,42605,2,-1>>, <<42625,42651,2,-1>>,
    <<42787,42799,2,-1>>, <<42803,42863,2,-1>>, <<42874,42876,2,-1>>,
    <<42879,42887,2,-1>>, <<42892,42892,1,-1>>, <<42897,42899,2,-1>>,
    <<42900,42900,1,48>>, <<42903,42921,2,-1>>, <<42933,42947,2,-1>>,
    <<42952,42954,2,-1>>, <<42961,42961,1,-1>>, <<42967,42969,2,-1>>,
    <<42998,42998,1,-1>>, <<43859,43859,1,-928>>, <<43888,43967,1,-38864>>,
    <<65345,65370,1,-32>>, <<66600,66639,1,-40>>, <<66776,66811,1,-40>>,
    <<66967,67003,2,-39>>, <<66968,66976,2,-39>>, <<66980,66992,2,-39>>,
    <<66996,67000,2,-39>>, <<67004,67004,1,-39>>, <<68800,68850,1,-64>>,
    <<71872,71903,1,-32>>, <<93792,93823,1,-32>>, <<125218,125251,1,-34>>
    }

\* The characters str.upper() replaces by more than one character.
UpperSpecial == {
    <<223, <<83,83>>>>, <<329, <<700,78>>>>, <<496, <<74,780>>>>,
    <<912, <<921,776,769>>>>, <<944, <<933,776,769>>>>,
    <<1415, <<1333,1362>>>>, <<7830, <<72,817>>>>, <<7831, <<84,776>>>>,
    <<7832, <<87,778>>>>, <<7833, <<89,778>>>>, <<7834, <<65,702>>>>,
    <<8016, <<933,787>>>>, <<8018, <<933,787,768>>>>,
    <<8020, <<933,787,769>>>>, <<8022, <<933,787,834>>>>,
    <<8064, <<7944,921>>>>, <<8065, <<7945,921>>>>, <<8066, <<7946,921>>>>,
    <<8067, <<7947,921>>>>, <<8068, <<7948,921>>>>, <<8069, <<7949,921>>>>,
    <<8070, <<7950,921>>>>, <<8071, <<7951,921>>>>, <<8072, <<7944,921>>>>,
    <<8073, <<7945,921>>>>, <<8074, <<7946,921>>>>, <<8075, <<7947,921>>>>,
    <<8076, <<7948,921>>>>, <<8077, <<7949,921>>>>, <<8078, <<7950,921>>>>,
    <<8079, <<7951,921>>>>, <<8080, <<7976,921>>>>, <<8081, <<7977,921>>>>,
    <<8082, <<7978,921>>>>, <<8083, <<7979,921>>>>, <<8084, <<7980,921>>>>,
    <<8085, <<7981,921>>>>, <<8086, <<7982,921>>>>, <<8087, <<7983,921>>>>,
    <<8088, <<7976,921>>>>, <<8089, <<7977,921>>>>, <<8090, <<7978,921>>>>,
    <<8091, <<7979,921>>>>, <<8092, <<7980,921>>>>, <<8093, <<7981,921>>>>,
    <<8094, <<7982,921>>>>, <<8095, <<7983,921>>>>, <<8096, <<8040,921>>>>,
    <<8097, <<8041,921>>>>, <<8098, <<8042,921>>>>, <<8099, <<8043,921>>>>,
    <<8100, <<8044,921>>>>, <<8101, <<8045,921>>>>, <<8102, <<8046,921>>>>,
    <<8103, <<8047,921>>>>, <<8104, <<8040,921>>>>, <<8105, <<8041,921>>>>,
    <<8106, <<8042,921>>>>, <<8107, <<8043,921>>>>, <<8108, <<8044,921>>>>,
    <<8109, <<8045,921>>>>, <<8110, <<8046,921>>>>, <<8111, <<8047,921>>>>,
    <<8114, <<8122,921>>>>, <<8115, <<913,921>>>>, <<8116, <<902,921>>>>,
    <<8118, <<913,834>>>>, <<8119, <<913,834,921>>>>, <<8124, <<913,921>>>>,
    <<8130, <<8138,921>>>>, <<8131, <<919,921>>>>, <<8132, <<905,921>>>>,
    <<8134, <<919,834>>>>, <<8135, <<919,834,921>>>>, <<8140, <<919,921>>>>,
    <<8146, <<921,776,768>>>>, <<8147, <<921,776,769>>>>,
    <<8150, <<921,834>>>>, <<8151, <<921,776,834>>>>,
    <<8162, <<933,776,768>>>>, <<8163, <<933,776,769>>>>,
    <<8164, <<929,787>>>>, <<8166, <<933,834>>>>, <<8167, <<933,776,834>>>>,
    <<8178, <<8186,921>>>>, <<8179, <<937,921>>>>, <<8180, <<911,921>>>>,
    <<8182, <<937,834>>>>, <<8183, <<937,834,921>>>>, <<8188, <<937,921>>>>,
    <<64256, <<70,70>>>>, <<64257, <<70,73>>>>, <<64258, <<70,76>>>>,
    <<64259, <<70,70,73>>>>, <<64260, <<70,70,76>>>>, <<64261, <<83,84>>>>,
    <<64262, <<83,84>>>>, <<64275, <<1348,1350>>>>, <<64276, <<1348,1333>>>>,
    <<64277, <<1348,1339>>>>, <<64278, <<1358,1350>>>>,
    <<64279, <<1348,1341>>>>
    }

\* str.isalpha() of one character: the ranges <<first, last>> of the letters.
AlphaRuns == {
    <<65,90>>, <<97,122>>, <<170,170>>, <<181,181>>, <<186,186>>, <<192,214>>,
    <<216,246>>, <<248,705>>, <<710,721>>, <<736,740>>, <<748,748>>,
    <<750,750>>, <<880,884>>, <<886,887>>, <<890,893>>, <<895,895>>,
    <<902,902>>, <<904,906>>, <<908,908>>, <<910,929>>, <<931,1013>>,
    <<1015,1153>>, <<1162,1327>>, <<1329,1366>>, <<1369,1369>>, <<1376,1416>>,
    <<1488,1514>>, <<1519,1522>>, <<1568,1610>>, <<1646,1647>>, <<1649,1747>>,
    <<1749,1749>>, <<1765,1766>>, <<1774,1775>>, <<1786,1788>>, <<1791,1791>>,
    <<1808,1808>>, <<1810,1839>>, <<1869,1957>>, <<1969,1969>>, <<1994,2026>>,
    <<2036,2037>>, <<2042,2042>>, <<2048,2069>>, <<2074,2074>>, <<2084,2084>>,
    <<2088,2088>>, <<2112,2136>>, <<2144,2154>>, <<2160,2183>>, <<2185,2190>>,
    <<2208,2249>>, <<2308,2361>>, <<2365,2365>>, <<2384,2384>>, <<2392,2401>>,
    <<2417,2432>>, <<2437,2444>>, <<2447,2448>>, <<2451,2472>>, <<2474,2480>>,
    <<2482,2482>>, <<2486,2489>>, <<2493,2493>>, <<2510,2510>>, <<2524,2525>>,
    <<2527,2529>>, <<2544,2545>>, <<2556,2556>>, <<2565,2570>>, <<2575,2576>>,
    <<2579,2600>>, <<2602,2608>>, <<2610,2611>>, <<2613,2614>>, <<2616,2617>>,
    <<2649,2652>>, <<2654,2654>>, <<2674,2676>>, <<2693,2701>>, <<2703,2705>>,
    <<2707,2728>>, <<2730,2736>>, <<2738,2739>>, <<2741,2745>>, <<2749,2749>>,
    <<2768,2768>>, <<2784,2785>>, <<2809,2809>>, <<2821,2828>>, <<2831,2832>>,
    <<2835,2856>>, <<2858,2864>>, <<2866,2867>>, <<2869,2873>>, <<2877,2877>>,
    <<2908,2909>>, <<2911,2913>>, <<2929,2929>>, <<2947,2947>>, <<2949,2954>>,
    <<2958,2960>>, <<2962,2965>>, <<2969,2970>>, <<2972,2972>>, <<2974,2975>>,
    <<2979,2980>>, <<2984,2986>>, <<2990,3001>>, <<3024,3024>>, <<3077,3084>>,
    <<3086,3088>>, <<3090,3112>>, <<3114,3129>>, <<3133,3133>>, <<3160,3162>>,
    <<3165,3165>>, <<3168,3169>>, <<3200,3200>>, <<3205,3212>>, <<3214,3216>>,
    <<3218,3240>>, <<3242,3251>>, <<3253,3257>>, <<3261,3261>>, <<3293,3294>>,
    <<3296,3297>>, <<3313,3314>>, <<3332,3340>>, <<3342,3344>>, <<3346,3386>>,
    <<3389,3389>>, <<3406,3406>>, <<3412,3414>>, <<3423,3425>>, <<3450,3455>>,
    <<3461,3478>>, <<3482,3505>>, <<3507,3515>>, <<3517,3517>>, <<3520,3526>>,
    <<3585,3632>>, <<3634,3635>>, <<3648,3654>>, <<3713,3714>>, <<3716,3716>>,
    <<3718,3722>>, <<3724,3747>>, <<3749,3749>>, <<3751,3760>>, <<3762,3763>>,
    <<3773,3773>>, <<3776,3780>>, <<3782,3782>>, <<3804,3807>>, <<3840,3840>>,
    <<3904,3911>>, <<3913,3948>>, <<3976,3980>>, <<4096,4138>>, <<4159,4159>>,
    <<4176,4181>>, <<4186,4189>>, <<4193,4193>>, <<4197,4198>>, <<4206,4208>>,
    <<4213,4225>>, <<4238,4238>>, <<4256,4293>>, <<4295,4295>>, <<4301,4301>>,
    <<4304,4346>>, <<4348,4680>>, <<4682,4685>>, <<4688,4694>>, <<4696,4696>>,
    <<4698,4701>>, <<4704,4744>>, <<4746,4749>>, <<4752,4784>>, <<4786,4789>>,
    <<4792,4798>>, <<4800,4800>>, <<4802,4805>>, <<4808,4822>>, <<4824,4880>>,
    <<4882,4885>>, <<4888,4954>>, <<4992,5007>>, <<5024,5109>>, <<5112,5117>>,
    <<5121,5740>>, <<5743,5759>>, <<5761,5786>>, <<5792,5866>>, <<5873,5880>>,
    <<5888,5905>>, <<5919,5937>>, <<5952,5969>>, <<5984,5996>>, <<5998,6000>>,
    <<6016,6067>>, <<6103,6103>>, <<6108,6108>>, <<6176,6264>>, <<6272,6276>>,
    <<6279,6312>>, <<6314,6314>>, <<6320,6389>>, <<6400,6430>>, <<6480,6509>>,
    <<6512,6516>>, <<6528,6571>>, <<6576,6601>>, <<6656,6678>>, <<6688,6740>>,
    <<6823,6823>>, <<6917,6963>>, <<6981,6988>>, <<7043,7072>>, <<7086,7087>>,
    <<7098,7141>>, <<7168,7203>>, <<7245,7247>>, <<7258,7293>>, <<7296,7304>>,
    <<7312,7354>>, <<7357,7359>>, <<7401,7404>>, <<7406,7411>>, <<7413,7414>>,
    <<7418,7418>>, <<7424,7615>>, <<7680,7957>>, <<7960,7965>>, <<7968,8005>>,
    <<8008,8013>>, <<8016,8023>>, <<8025,8025>>, <<8027,8027>>, <<8029,8029>>,
    <<8031,8061>>, <<8064,8116>>, <<8118,8124>>, <<8126,8126>>, <<8130,8132>>,
    <<8134,8140>>, <<8144,8147>>, <<8150,8155>>, <<8160,8172>>, <<8178,8180>>,
    <<8182,8188>>, <<8305,8305>>, <<8319,8319>>, <<8336,8348>>, <<8450,8450>>,
    <<8455,8455>>, <<8458,8467>>, <<8469,8469>>, <<8473,8477>>, <<8484,8484>>,
    <<8486,8486>>, <<8488,8488>>, <<8490,8493>>, <<8495,8505>>, <<8508,8511>>,
    <<8517,8521>>, <<8526,8526>>, <<8579,8580>>, <<11264,11492>>,
    <<11499,11502>>, <<11506,11507>>, <<11520,11557>>, <<11559,11559>>,
    <<11565,11565>>, <<11568,11623>>, <<11631,11631>>, <<11648,11670>>,
    <<11680,11686>>, <<11688,11694>>, <<11696,11702>>, <<11704,11710>>,
    <<11712,11718>>, <<11720,11726>>, <<11728,11734>>, <<11736,11742>>,
    <<11823,11823>>, <<12293,12294>>, <<12337,12341>>, <<12347,12348>>,
    <<12353,12438>>, <<12445,12447>>, <<12449,12538>>, <<12540,12543>>,
    <<12549,12591>>, <<12593,12686>>, <<12704,12735>>, <<12784,12799>>,
    <<13312,19903>>, <<19968,42124>>, <<42192,42237>>, <<42240,42508>>,
    <<42512,42527>>, <<42538,42539>>, <<42560,42606>>, <<42623,42653>>,
    <<42656,42725>>, <<42775,42783>>, <<42786,42888>>, <<42891,42954>>,
    <<42960,42961>>, <<42963,42963>>, <<42965,42969>>, <<42994,43009>>,
    <<43011,43013>>, <<43015,43018>>, <<43020,43042>>, <<43072,43123>>,
    <<43138,43187>>, <<43250,43255>>, <<43259,43259>>, <<43261,43262>>,
    <<43274,43301>>, <<43312,43334>>, <<43360,43388>>, <<43396,43442>>,
    <<43471,43471>>, <<43488,43492>>, <<43494,43503>>, <<43514,43518>>,
    <<43520,43560>>, <<43584,43586>>, <<43588,43595>>, <<43616,43638>>,
    <<43642,43642>>, <<43646,43695>>, <<43697,43697>>, <<43701,43702>>,
    <<43705,43709>>, <<43712,43712>>, <<43714,43714>>, <<43739,43741>>,
    <<43744,43754>>, <<43762,43764>>, <<43777,43782>>, <<43785,43790>>,
    <<43793,43798>>, <<43808,43814>>, <<43816,43822>>, <<43824,43866>>,
    <<43868,43881>>, <<43888,44002>>, <<44032,55203>>, <<55216,55238>>,
    <<55243,55291>>, <<63744,64109>>, <<64112,64217>>, <<64256,64262>>,
    <<64275,64279>>, <<64285,64285>>, <<64287,64296>>, <<64298,64310>>,
    <<64312,64316>>, <<64318,64318>>, <<64320,64321>>, <<64323,64324>>,
    <<64326,64433>>, <<64467,64829>>, <<64848,64911>>, <<64914,64967>>,
    <<65008,65019>>, <<65136,65140>>, <<65142,65276>>, <<65313,65338>>,
    <<65345,65370>>, <<65382,65470>>, <<65474,65479>>, <<65482,65487>>,
    <<65490,65495>>, <<65498,65500>>, <<65536,65547>>, <<65549,65574>>,
    <<65576,65594>>, <<65596,65597>>, <<65599,65613>>, <<65616,65629>>,
    <<65664,65786>>, <<66176,66204>>, <<66208,66256>>, <<66304,66335>>,
    <<66349,66368>>, <<66370,66377>>, <<66384,66421>>, <<66432,66461>>,
    <<66464,66499>>, <<66504,66511>>, <<66560,66717>>, <<66736,66771>>,
    <<66776,66811>>, <<66816,66855>>, <<66864,66915>>, <<66928,66938>>,
    <<66940,66954>>, <<66956,66962>>, <<66964,66965>>, <<66967,66977>>,
    <<66979,66993>>, <<66995,67001>>, <<67003,67004>>, <<67072,67382>>,
    <<67392,67413>>, <<67424,67431>>, <<67456,67461>>, <<67463,67504>>,
    <<67506,67514>>, <<67584,67589>>, <<67592,67592>>, <<67594,67637>>,
    <<67639,67640>>, <<67644,67644>>, <<67647,67669>>, <<67680,67702>>,
    <<67712,67742>>, <<67808,67826>>, <<67828,67829>>, <<67840,67861>>,
    <<67872,67897>>, <<67968,68023>>, <<68030,68031>>, <<68096,68096>>,
    <<68112,68115>>, <<68117,68119>>, <<68121,68149>>, <<68192,68220>>,
    <<68224,68252>>, <<68288,68295>>, <<68297,68324>>, <<68352,68405>>,
    <<68416,68437>>, <<68448,68466>>, <<68480,68497>>, <<68608,68680>>,
    <<68736,68786>>, <<68800,68850>>, <<68864,68899>>, <<69248,69289>>,
    <<69296,69297>>, <<69376,69404>>, <<69415,69415>>, <<69424,69445>>,
    <<69488,69505>>, <<69552,69572>>, <<69600,69622>>, <<69635,69687>>,
    <<69745,69746>>, <<69749,69749>>, <<69763,69807>>, <<69840,69864>>,
    <<69891,69926>>, <<69956,69956>>, <<69959,69959>>, <<69968,70002>>,
    <<70006,70006>>, <<70019,70066>>, <<70081,70084>>, <<70106,70106>>,
    <<70108,70108>>, <<70144,70161>>, <<70163,70187>>, <<70272,70278>>,
    <<70280,70280>>, <<70282,70285>>, <<70287,70301>>, <<70303,70312>>,
    <<70320,70366>>, <<70405,70412>>, <<70415,70416>>, <<70419,70440>>,
    <<70442,70448>>, <<70450,70451>>, <<70453,70457>>, <<70461,70461>>,
    <<70480,70480>>, <<70493,70497>>, <<70656,70708>>, <<70727,70730>>,
    <<70751,70753>>, <<70784,70831>>, <<70852,70853>>, <<70855,70855>>,
    <<71040,71086>>, <<71128,71131>>, <<71168,71215>>, <<71236,71236>>,
    <<71296,71338>>, <<71352,71352>>, <<71424,71450>>, <<71488,71494>>,
    <<71680,71723>>, <<71840,71903>>, <<71935,71942>>, <<71945,71945>>,
    <<71948,71955>>, <<71957,71958>>, <<71960,71983>>, <<71999,71999>>,
    <<72001,72001>>, <<72096,72103>>, <<72106,72144>>, <<72161,72161>>,
    <<72163,72163>>, <<72192,72192>>, <<72203,72242>>, <<72250,72250>>,
    <<72272,72272>>, <<72284,72329>>, <<72349,72349>>, <<72368,72440>>,
    <<72704,72712>>, <<72714,72750>>, <<72768,72768>>, <<72818,72847>>,
    <<72960,72966>>, <<72968,72969>>, <<72971,73008>>, <<73030,73030>>,
    <<73056,73061>>, <<73063,73064>>, <<73066,73097>>, <<73112,73112>>,
    <<73440,73458>>, <<73648,73648>>, <<73728,74649>>, <<74880,75075>>,
    <<77712,77808>>, <<77824,78894>>, <<82944,83526>>, <<92160,92728>>,
    <<92736,92766>>, <<92784,92862>>, <<92880,92909>>, <<92928,92975>>,
    <<92992,92995>>, <<93027,93047>>, <<93053,93071>>, <<93760,93823>>,
    <<93952,94026>>, <<94032,94032>>, <<94099,94111>>, <<94176,94177>>,
    <<94179,94179>>, <<94208,100343>>, <<100352,101589>>, <<101632,101640>>,
    <<110576,110579>>, <<110581,110587>>, <<110589,110590>>,
    <<110592,110882>>, <<110928,110930>>, <<110948,110951>>,
    <<110960,111355>>, <<113664,113770>>, <<113776,113788>>,
    <<113792,113800>>, <<113808,113817>>, <<119808,119892>>,
    <<119894,119964>>, <<119966,119967>>, <<119970,119970>>,
    <<119973,119974>>, <<119977,119980>>, <<119982,119993>>,
    <<119995,119995>>, <<119997,120003>>, <<120005,120069>>,
    <<120071,120074>>, <<120077,120084>>, <<120086,120092>>,
    <<120094,120121>>, <<120123,120126>>, <<120128,120132>>,
    <<120134,120134>>, <<120138,120144>>, <<120146,120485>>,
    <<120488,120512>>, <<120514,120538>>, <<120540,120570>>,
    <<120572,120596>>, <<120598,120628>>, <<120630,120654>>,
    <<120656,120686>>, <<120688,120712>>, <<120714,120744>>,
    <<120746,120770>>, <<120772,120779>>, <<122624,122654>>,
    <<123136,123180>>, <<123191,123197>>, <<123214,123214>>,
    <<123536,123565>>, <<123584,123627>>, <<124896,124902>>,
    <<124904,124907>>, <<124909,124910>>, <<124912,124926>>,
    <<124928,125124>>, <<125184,125251>>, <<125259,125259>>,
    <<126464,126467>>, <<126469,126495>>, <<126497,126498>>,
    <<126500,126500>>, <<126503,126503>>, <<126505,126514>>,
    <<126516,126519>>, <<126521,126521>>, <<126523,126523>>,
    <<126530,126530>>, <<126535,126535>>, <<126537,126537>>,
    <<126539,126539>>, <<126541,126543>>, <<126545,126546>>,
    <<126548,126548>>, <<126551,126551>>, <<126553,126553>>,
    <<126555,126555>>, <<126557,126557>>, <<126559,126559>>,
    <<126561,126562>>, <<126564,126564>>, <<126567,126570>>,
    <<126572,126578>>, <<126580,126583>>, <<126585,126588>>,
    <<126590,126590>>, <<126592,126601>>, <<126603,126619>>,
    <<126625,126627>>, <<126629,126633>>, <<126635,126651>>,
    <<131072,173791>>, <<173824,177976>>, <<177984,178205>>,
    <<178208,183969>>, <<183984,191456>>, <<194560,195101>>, <<196608,201546>>
    }

\* The cased characters (lowercase, uppercase or titlecase), as ranges.
CasedRuns == {
    <<65,90>>, <<97,122>>, <<170,170>>, <<181,181>>, <<186,186>>, <<192,214>>,
    <<216,246>>, <<248,442>>, <<444,447>>, <<452,659>>, <<661,696>>,
    <<704,705>>, <<736,740>>, <<837,837>>, <<880,883>>, <<886,887>>,
    <<890,893>>, <<895,895>>, <<902,902>>, <<904,906>>, <<908,908>>,
    <<910,929>>, <<931,1013>>, <<1015,1153>>, <<1162,1327>>, <<1329,1366>>,
    <<1376,1416>>, <<4256,4293>>, <<4295,4295>>, <<4301,4301>>, <<4304,4346>>,
    <<4349,4351>>, <<5024,5109>>, <<5112,5117>>, <<7296,7304>>, <<7312,7354>>,
    <<7357,7359>>, <<7424,7615>>, <<7680,7957>>, <<7960,7965>>, <<7968,8005>>,
    <<8008,8013>>, <<8016,8023>>, <<8025,8025>>, <<8027,8027>>, <<8029,8029>>,
    <<8031,8061>>, <<8064,8116>>, <<8118,8124>>, <<8126,8126>>, <<8130,8132>>,
    <<8134,8140>>, <<8144,8147>>, <<8150,8155>>, <<8160,8172>>, <<8178,8180>>,
    <<8182,8188>>, <<8305,8305>>, <<8319,8319>>, <<8336,8348>>, <<8450,8450>>,
    <<8455,8455>>, <<8458,8467>>, <<8469,8469>>, <<8473,8477>>, <<8484,8484>>,
    <<8486,8486>>, <<8488,8488>>, <<8490,8493>>, <<8495,8500>>, <<8505,8505>>,
    <<8508,8511>>, <<8517,8521>>, <<8526,8526>>, <<8544,8575>>, <<8579,8580>>,
    <<9398,9449>>, <<11264,11492>>, <<11499,11502>>, <<11506,11507>>,
    <<11520,11557>>, <<11559,11559>>, <<11565,11565>>, <<42560,42605>>,
    <<42624,42653>>, <<42786,42887>>, <<42891,42894>>, <<42896,42954>>,
    <<42960,42961>>, <<42963,42963>>, <<42965,42969>>, <<42997,42998>>,
    <<43000,43002>>, <<43824,43866>>, <<43868,43880>>, <<43888,43967>>,
    <<64256,64262>>, <<64275,64279>>, <<65313,65338>>, <<65345,65370>>,
    <<66560,66639>>, <<66736,66771>>, <<66776,66811>>, <<66928,66938>>,
    <<66940,66954>>, <<66956,66962>>, <<66964,66965>>, <<66967,66977>>,
    <<66979,66993>>, <<66995,67001>>, <<67003,67004>>, <<67456,67456>>,
    <<67459,67461>>, <<67463,67504>>, <<67506,67514>>, <<68736,68786>>,
    <<68800,68850>>, <<71840,71903>>, <<93760,93823>>, <<119808,119892>>,
    <<119894,119964>>, <<119966,119967>>, <<119970,119970>>,
    <<119973,119974>>, <<119977,119980>>, <<119982,119993>>,
    <<119995,119995>>, <<119997,120003>>, <<120005,120069>>,
    <<120071,120074>>, <<120077,120084>>, <<120086,120092>>,
    <<120094,120121>>, <<120123,120126>>, <<120128,120132>>,
    <<120134,120134>>, <<120138,120144>>, <<120146,120485>>,
    <<120488,120512>>, <<120514,120538>>, <<120540,120570>>,
    <<120572,120596>>, <<120598,120628>>, <<120630,120654>>,
    <<120656,120686>>, <<120688,120712>>, <<120714,120744>>,
    <<120746,120770>>, <<120772,120779>>, <<122624,122633>>,
    <<122635,122654>>, <<125184,125251>>, <<127280,127305>>,
    <<127312,127337>>, <<127344,127369>>
    }

\* The case-ignorable characters (marks, apostrophes, modifier letters and
\* the like), as ranges.
CaseIgnorableRuns == {
    <<39,39>>, <<46,46>>, <<58,58>>, <<94,94>>, <<96,96>>, <<168,168>>,
    <<173,173>>, <<175,175>>, <<180,180>>, <<183,184>>, <<688,879>>,
    <<884,885>>, <<890,890>>, <<900,901>>, <<903,903>>, <<1155,1161>>,
    <<1369,1369>>, <<1375,1375>>, <<1425,1469>>, <<1471,1471>>, <<1473,1474>>,
    <<1476,1477>>, <<1479,1479>>, <<1524,1524>>, <<1536,1541>>, <<1552,1562>>,
    <<1564,1564>>, <<1600,1600>>, <<1611,1631>>, <<1648,1648>>, <<1750,1757>>,
    <<1759,1768>>, <<1770,1773>>, <<1807,1807>>, <<1809,1809>>, <<1840,1866>>,
    <<1958,1968>>, <<2027,2037>>, <<2042,2042>>, <<2045,2045>>, <<2070,2093>>,
    <<2137,2139>>, <<2184,2184>>, <<2192,2193>>, <<2200,2207>>, <<2249,2306>>,
    <<2362,2362>>, <<2364,2364>>, <<2369,2376>>, <<2381,2381>>, <<2385,2391>>,
    <<2402,2403>>, <<2417,2417>>, <<2433,2433>>, <<2492,2492>>, <<2497,2500>>,
    <<2509,2509>>, <<2530,2531>>, <<2558,2558>>, <<2561,2562>>, <<2620,2620>>,
    <<2625,2626>>, <<2631,2632>>, <<2635,2637>>, <<2641,2641>>, <<2672,2673>>,
    <<2677,2677>>, <<2689,2690>>, <<2748,2748>>, <<2753,2757>>, <<2759,2760>>,
    <<2765,2765>>, <<2786,2787>>, <<2810,2815>>, <<2817,2817>>, <<2876,2876>>,
    <<2879,2879>>, <<2881,2884>>, <<2893,2893>>, <<2901,2902>>, <<2914,2915>>,
    <<2946,2946>>, <<3008,3008>>, <<3021,3021>>, <<3072,3072>>, <<3076,3076>>,
    <<3132,3132>>, <<3134,3136>>, <<3142,3144>>, <<3146,3149>>, <<3157,3158>>,
    <<3170,3171>>, <<3201,3201>>, <<3260,3260>>, <<3263,3263>>, <<3270,3270>>,
    <<3276,3277>>, <<3298,3299>>, <<3328,3329>>, <<3387,3388>>, <<3393,3396>>,
    <<3405,3405>>, <<3426,3427>>, <<3457,3457>>, <<3530,3530>>, <<3538,3540>>,
    <<3542,3542>>, <<3633,3633>>, <<3636,3642>>, <<3654,3662>>, <<3761,3761>>,
    <<3764,3772>>, <<3782,3782>>, <<3784,3789>>, <<3864,3865>>, <<3893,3893>>,
    <<3895,3895>>, <<3897,3897>>, <<3953,3966>>, <<3968,3972>>, <<3974,3975>>,
    <<3981,3991>>, <<3993,4028>>, <<4038,4038>>, <<4141,4144>>, <<4146,4151>>,
    <<4153,4154>>, <<4157,4158>>, <<4184,4185>>, <<4190,4192>>, <<4209,4212>>,
    <<4226,4226>>, <<4229,4230>>, <<4237,4237>>, <<4253,4253>>, <<4348,4348>>,
    <<4957,4959>>, <<5906,5908>>, <<5938,5939>>, <<5970,5971>>, <<6002,6003>>,
    <<6068,6069>>, <<6071,6077>>, <<6086,6086>>, <<6089,6099>>, <<6103,6103>>,
    <<6109,6109>>, <<6155,6159>>, <<6211,6211>>, <<6277,6278>>, <<6313,6313>>,
    <<6432,6434>>, <<6439,6440>>, <<6450,6450>>, <<6457,6459>>, <<6679,6680>>,
    <<6683,6683>>, <<6742,6742>>, <<6744,6750>>, <<6752,6752>>, <<6754,6754>>,
    <<6757,6764>>, <<6771,6780>>, <<6783,6783>>, <<6823,6823>>, <<6832,6862>>,
    <<6912,6915>>, <<6964,6964>>, <<6966,6970>>, <<6972,6972>>, <<6978,6978>>,
    <<7019,7027>>, <<7040,7041>>, <<7074,7077>>, <<7080,7081>>, <<7083,7085>>,
    <<7142,7142>>, <<7144,7145>>, <<7149,7149>>, <<7151,7153>>, <<7212,7219>>,
    <<7222,7223>>, <<7288,7293>>, <<7376,7378>>, <<7380,7392>>, <<7394,7400>>,
    <<7405,7405>>, <<7412,7412>>, <<7416,7417>>, <<7468,7530>>, <<7544,7544>>,
    <<7579,7679>>, <<8125,8125>>, <<8127,8129>>, <<8141,8143>>, <<8157,8159>>,
    <<8173,8175>>, <<8189,8190>>, <<8203,8207>>, <<8216,8217>>, <<8228,8228>>,
    <<8231,8231>>, <<8234,8238>>, <<8288,8292>>, <<8294,8303>>, <<8305,8305>>,
    <<8319,8319>>, <<8336,8348>>, <<8400,8432>>, <<11388,11389>>,
    <<11503,11505>>, <<11631,11631>>, <<11647,11647>>, <<11744,11775>>,
    <<11823,11823>>, <<12293,12293>>, <<12330,12333>>, <<12337,12341>>,
    <<12347,12347>>, <<12441,12446>>, <<12540,12542>>, <<40981,40981>>,
    <<42232,42237>>, <<42508,42508>>, <<42607,42610>>, <<42612,42621>>,
    <<42623,42623>>, <<42652,42655>>, <<42736,42737>>, <<42752,42785>>,
    <<42864,42864>>, <<42888,42890>>, <<42994,42996>>, <<43000,43001>>,
    <<43010,43010>>, <<43014,43014>>, <<43019,43019>>, <<43045,43046>>,
    <<43052,43052>>, <<43204,43205>>, <<43232,43249>>, <<43263,43263>>,
    <<43302,43309>>, <<43335,43345>>, <<43392,43394>>, <<43443,43443>>,
    <<43446,43449>>, <<43452,43453>>, <<43471,43471>>, <<43493,43494>>,
    <<43561,43566>>, <<43569,43570>>, <<43573,43574>>, <<43587,43587>>,
    <<43596,43596>>, <<43632,43632>>, <<43644,43644>>, <<43696,43696>>,
    <<43698,43700>>, <<43703,43704>>, <<43710,43711>>, <<43713,43713>>,
    <<43741,43741>>, <<43756,43757>>, <<43763,43764>>, <<43766,43766>>,
    <<43867,43871>>, <<43881,43883>>, <<44005,44005>>, <<44008,44008>>,
    <<44013,44013>>, <<64286,64286>>, <<64434,64450>>, <<65024,65039>>,
    <<65043,65043>>, <<65056,65071>>, <<65106,65106>>, <<65109,65109>>,
    <<65279,65279>>, <<65287,65287>>, <<65294,65294>>, <<65306,65306>>,
    <<65342,65342>>, <<65344,65344>>, <<65392,65392>>, <<65438,65439>>,
    <<65507,65507>>, <<65529,65531>>, <<66045,66045>>, <<66272,66272>>,
    <<66422,66426>>, <<67456,67461>>, <<67463,67504>>, <<67506,67514>>,
    <<68097,68099>>, <<68101,68102>>, <<68108,68111>>, <<68152,68154>>,
    <<68159,68159>>, <<68325,68326>>, <<68900,68903>>, <<69291,69292>>,
    <<69446,69456>>, <<69506,69509>>, <<69633,69633>>, <<69688,69702>>,
    <<69744,69744>>, <<69747,69748>>, <<69759,69761>>, <<69811,69814>>,
    <<69817,69818>>, <<69821,69821>>, <<69826,69826>>, <<69837,69837>>,
    <<69888,69890>>, <<69927,69931>>, <<69933,69940>>, <<70003,70003>>,
    <<70016,70017>>, <<70070,70078>>, <<70089,70092>>, <<70095,70095>>,
    <<70191,70193>>, <<70196,70196>>, <<70198,70199>>, <<70206,70206>>,
    <<70367,70367>>, <<70371,70378>>, <<70400,70401>>, <<70459,70460>>,
    <<70464,70464>>, <<70502,70508>>, <<70512,70516>>, <<70712,70719>>,
    <<70722,70724>>, <<70726,70726>>, <<70750,70750>>, <<70835,70840>>,
    <<70842,70842>>, <<70847,70848>>, <<70850,70851>>, <<71090,71093>>,
    <<71100,71101>>, <<71103,71104>>, <<71132,71133>>, <<71219,71226>>,
    <<71229,71229>>, <<71231,71232>>, <<71339,71339>>, <<71341,71341>>,
    <<71344,71349>>, <<71351,71351>>, <<71453,71455>>, <<71458,71461>>,
    <<71463,71467>>, <<71727,71735>>, <<71737,71738>>, <<71995,71996>>,
    <<71998,71998>>, <<72003,72003>>, <<72148,72151>>, <<72154,72155>>,
    <<72160,72160>>, <<72193,72202>>, <<72243,72248>>, <<72251,72254>>,
    <<72263,72263>>, <<72273,72278>>, <<72281,72283>>, <<72330,72342>>,
    <<72344,72345>>, <<72752,72758>>, <<72760,72765>>, <<72767,72767>>,
    <<72850,72871>>, <<72874,72880>>, <<72882,72883>>, <<72885,72886>>,
    <<73009,73014>>, <<73018,73018>>, <<73020,73021>>, <<73023,73029>>,
    <<73031,73031>>, <<73104,73105>>, <<73109,73109>>, <<73111,73111>>,
    <<73459,73460>>, <<78896,78904>>, <<92912,92916>>, <<92976,92982>>,
    <<92992,92995>>, <<94031,94031>>, <<94095,94111>>, <<94176,94177>>,
    <<94179,94180>>, <<110576,110579>>, <<110581,110587>>, <<110589,110590>>,
    <<113821,113822>>, <<113824,113827>>, <<118528,118573>>,
    <<118576,118598>>, <<119143,119145>>, <<119155,119170>>,
    <<119173,119179>>, <<119210,119213>>, <<119362,119364>>,
    <<121344,121398>>, <<121403,121452>>, <<121461,121461>>,
    <<121476,121476>>, <<121499,121503>>, <<121505,121519>>,
    <<122880,122886>>, <<122888,122904>>, <<122907,122913>>,
    <<122915,122916>>, <<122918,122922>>, <<123184,123197>>,
    <<123566,123566>>, <<123628,123631>>, <<125136,125142>>,
    <<125252,125259>>, <<127995,127999>>, <<917505,917505>>,
    <<917536,917631>>, <<917760,917999>>
    }

\* The characters str.strip() and str.split() treat as whitespace.
Whitespace == {
    9, 10, 11, 12, 13, 28, 29, 30, 31, 32, 133, 160, 5760, 8192, 8193, 8194,
    8195, 8196, 8197, 8198, 8199, 8200, 8201, 8202, 8232, 8233, 8239, 8287,
    12288
    }

InRuns(runs, c) == \E r \in runs : r[1] <= c /\ c <= r[2]

\* The image of character c under a case mapping: a str of one character, or
\* of several for the characters of `special`.
CaseImage(runs, special, c) ==
    IF \E p \in special : p[1] = c
    THEN (CHOOSE p \in special : p[1] = c)[2]
    ELSE IF \E r \in runs : r[1] <= c /\ c <= r[2] /\ (c - r[1]) % r[3] = 0
         THEN <<c + (CHOOSE r \in runs :
                        r[1] <= c /\ c <= r[2] /\ (c - r[1]) % r[3] = 0)[4]>>
         ELSE <<c>>

\* str.upper() of a str of one character.
upper_char(c) == CaseImage(UpperRuns, UpperSpecial, c)

\* str.lower() of a str of one character.
lower_char(c) == CaseImage(LowerRuns, LowerSpecial, c)

\* str.upper(): character by character; the result can be longer than s.
upper(s) == join([i \in DOMAIN s |-> upper_char(s[i])])

\* The lowercase of the capital sigma s[i]: the final form (962) when a cased
\* character precedes it and none follows it, case-ignorable characters
\* being skipped on both sides; the ordinary small sigma (963) otherwise.
handle_capital_sigma(s, i) ==
    LET before == {j \in 1..(i - 1) : ~InRuns(CaseIgnorableRuns, s[j])}
        after == {j \in (i + 1)..Len(s) : ~InRuns(CaseIgnorableRuns, s[j])}
        last == CHOOSE j \in before : \A k \in before : k <= j
        next == CHOOSE j \in after : \A k \in after : j <= k
        final_sigma == /\ before # {}
                       /\ InRuns(CasedRuns, s[last])
                       /\ after = {} \/ ~InRuns(CasedRuns, s[next])
    IN  IF final_sigma THEN 962 ELSE 963

\* str.lower(): character by character, but for the capital sigma (931).
lower(s) ==
    join([i \in DOMAIN s |->
            IF s[i] = 931 THEN <<handle_capital_sigma(s, i)>> ELSE lower_char(s[i])])

\* str.isalpha() of a str of one character.
isalpha(c) == InRuns(AlphaRuns, c)

RECURSIVE lstrip(_)
lstrip(s) ==
    IF s # << >> /\ Head(s) \in Whitespace THEN lstrip(Tail(s)) ELSE s

RECURSIVE rstrip(_)
rstrip(s) ==
    IF s # << >> /\ s[Len(s)] \in Whitespace
    THEN rstrip(SubSeq(s, 1, Len(s) - 1))
    ELSE s

strip(s) == rstrip(lstrip(s))

\* str.split(): the maximal runs of non-whitespace characters, left to
\* right.  `cur` is the run being read, `acc` the runs already closed.
RECURSIVE SplitLoop(_, _, _, _)
SplitLoop(s, i, cur, acc) ==
    IF i > Len(s)
    THEN IF cur = << >> THEN acc ELSE Append(acc, cur)
    ELSE IF s[i] \in Whitespace
         THEN SplitLoop(s, i + 1, << >>, IF cur = << >> THEN acc ELSE Append(acc, cur))
         ELSE SplitLoop(s, i + 1, Append(cur, s[i]), acc)

split(s) == SplitLoop(s, 1, << >>, << >>)

(***************************************************************************)
(* Dot codec.                                                              *)
(***************************************************************************)

\* The keys D, W, Q, K, O, P and the dot each stands for.
BRAILLE_KEYS ==
    (68 :> 1) @@ (87 :> 2) @@ (81 :> 3) @@ (75 :> 4) @@ (79 :> 5) @@ (80 :> 6)

\* Keyed by the sorted tuple of dots, as the dict in the source is; the
\* letters are a (97) to z (122).
DOT_TO_LETTER ==
    (<<1>> :> <<97>>) @@ (<<1,2>> :> <<98>>) @@ (<<1,4>> :> <<99>>) @@ (<<1,4,5>> :> <<100>>) @@
    (<<1,5>> :> <<101>>) @@ (<<1,2,4>> :> <<102>>) @@ (<<1,2,4,5>> :> <<103>>) @@
    (<<1,2,5>> :> <<104>>) @@ (<<2,4>> :> <<105>>) @@ (<<2,4,5>> :> <<106>>) @@
    (<<1,3>> :> <<107>>) @@ (<<1,2,3>> :> <<108>>) @@ (<<1,3,4>> :> <<109>>) @@
    (<<1,3,4,5>> :> <<110>>) @@ (<<1,3,5>> :> <<111>>) @@ (<<1,2,3,4>> :> <<112>>) @@
    (<<1,2,3,4,5>> :> <<113>>) @@ (<<1,2,3,5>> :> <<114>>) @@ (<<2,3,4>> :> <<115>>) @@
    (<<2,3,4,5>> :> <<116>>) @@ (<<1,3,6>> :> <<117>>) @@ (<<1,2,3,6>> :> <<118>>) @@
    (<<2,4,5,6>> :> <<119>>) @@ (<<1,3,4,6>> :> <<120>>) @@ (<<1,3,4,5,6>> :> <<121>>) @@
    (<<1,3,5,6>> :> <<122>>)

\* sorted(dots): the dots of a set in ascending order.
RECURSIVE sorted(_)
sorted(dots) ==
    IF dots = {} THEN << >>
    ELSE LET m == CHOOSE d \in dots : \A e \in dots : d <= e
         IN  <<m>> \o sorted(dots \ {m})

\* DOT_TO_LETTER.get(dot_pattern, '?'); '?' is 63.
dots_to_letter(dots) ==
    LET dot_pattern == sorted(dots)
    IN  IF dot_pattern \in DOMAIN DOT_TO_LETTER THEN DOT_TO_LETTER[dot_pattern] ELSE <<63>>

\* The loop of convert_braille_input over input_text.upper(): `text` is the
\* uppercased input, `result` the output pieces joined so far, `current_dots`
\* the chord being accumulated.  The space is 32.
RECURSIVE ConvertLoop(_, _, _, _)
ConvertLoop(text, i, result, current_dots) ==
    IF i > Len(text)
    THEN IF current_dots # {}
         THEN result \o dots_to_letter(current_dots)
         ELSE result
    ELSE LET char == text[i]
             flushed == IF current_dots # {}
                        THEN result \o dots_to_letter(current_dots)
                        ELSE result
         IN  IF char = 32
             THEN ConvertLoop(text, i + 1, flushed \o <<32>>, {})
             ELSE IF char \in DOMAIN BRAILLE_KEYS
                  THEN ConvertLoop(text, i + 1, result,
                                   current_dots \cup {BRAILLE_KEYS[char]})
                  ELSE ConvertLoop(text, i + 1, flushed \o lower_char(char), {})

\* convert_braille_input with the .upper() left out: lowercase keys are then
\* taken for ordinary characters.
convert_braille_input_case_sensitive(input_text) == ConvertLoop(input_text, 1, << >>, {})

convert_braille_input(input_text) == ConvertLoop(upper(input_text), 1, << >>, {})

(***************************************************************************)
(* Edit distance.                                                          *)
(***************************************************************************)

\* One row of the matrix: row i from row i-1 (`prev`), filled left to right;
\* `cur` holds matrix[i][0..j-1].  Sequences are 1-based, so column j of the
\* source is element j+1 here.
RECURSIVE FillRow(_, _, _, _, _, _)
FillRow(word1, word2, i, j, prev, cur) ==
    IF j > Len(word2) THEN cur
    ELSE LET cost == IF word1[i] = word2[j] THEN 0 ELSE 1
             cell == Min2(Min2(prev[j + 1] + 1, cur[j] + 1), prev[j] + cost)
         IN  FillRow(word1, word2, i, j + 1, prev, Append(cur, cell))

RECURSIVE FillMatrix(_, _, _, _)
FillMatrix(word1, word2, i, prev) ==
    IF i > Len(word1) THEN prev
    ELSE FillMatrix(word1, word2, i + 1, FillRow(word1, word2, i, 1, prev, <<i>>))

\* calculate_similarity charging 1 for every pair of characters, equal or not.
RECURSIVE FillRowUnitCost(_, _, _, _, _, _)
FillRowUnitCost(word1, word2, i, j, prev, cur) ==
    IF j > Len(word2) THEN cur
    ELSE LET cell == Min2(Min2(prev[j + 1] + 1, cur[j] + 1), prev[j] + 1)
         IN  FillRowUnitCost(word1, word2, i, j + 1, prev, Append(cur, cell))

RECURSIVE FillMatrixUnitCost(_, _, _, _)
FillMatrixUnitCost(word1, word2, i, prev) ==
    IF i > Len(word1) THEN prev
    ELSE FillMatrixUnitCost(word1, word2, i + 1,
                            FillRowUnitCost(word1, word2, i, 1, prev, <<i>>))

calculate_similarity_unit_cost(word1, word2) ==
    IF word1 = word2 THEN 0
    ELSE LET row0 == [j \in 1..(Len(word2) + 1) |-> j - 1]
             lastRow == FillMatrixUnitCost(word1, word2, 1, row0)
         IN  lastRow[Len(word2) + 1]

calculate_similarity(word1, word2) ==
    IF word1 = word2 THEN 0
    ELSE LET row0 == [j \in 1..(Len(word2) + 1) |-> j - 1]
             lastRow == FillMatrix(word1, word2, 1, row0)
         IN  lastRow[Len(word2) + 1]

(***************************************************************************)
(* The dictionary.                                                         *)
(***************************************************************************)

\* The word list of load_basic_words, in the order it is added.
BasicWords == <<
    <<116,104,101>>,                           \* the
    <<97,110,100>>,                            \* and
    <<102,111,114>>,                           \* for
    <<97,114,101>>,                            \* are
    <<98,117,116>>,                            \* but
    <<110,111,116>>,                           \* not
    <<121,111,117>>,                           \* you
    <<97,108,108>>,                            \* all
    <<99,97,110>>,                             \* can
    <<104,97,100>>,                            \* had
    <<104,101,114>>,                           \* her
    <<119,97,115>>,                            \* was
    <<111,110,101>>,                           \* one
    <<111,117,114>>,                           \* our
    <<111,117,116>>,                           \* out
    <<100,97,121>>,                            \* day
    <<103,101,116>>,                           \* get
    <<104,97,115>>,                            \* has
    <<104,105,109>>,                           \* him
    <<104,105,115>>,                           \* his
    <<104,111,119>>,                           \* how
    <<109,97,110>>,                            \* man
    <<110,101,119>>,                           \* new
    <<110,111,119>>,                           \* now
    <<111,108,100>>,                           \* old
    <<115,101,101>>,                           \* see
    <<116,119,111>>,                           \* two
    <<119,97,121>>,                            \* way
    <<119,104,111>>,                           \* who
    <<98,111,121>>,                            \* boy
    <<100,105,100>>,                           \* did
    <<105,116,115>>,                           \* its
    <<108,101,116>>,                           \* let
    <<112,117,116>>,                           \* put
    <<115,97,121>>,                            \* say
    <<115,104,101>>,                           \* she
    <<116,111,111>>,                           \* too
    <<117,115,101>>,                           \* use
    <<103,111,111,100>>,                       \* good
    <<104,97,118,101>>,                        \* have
    <<106,117,115,116>>,                       \* just
    <<108,105,107,101>>,                       \* like
    <<111,118,101,114>>,                       \* over
    <<97,108,115,111>>,                        \* also
    <<98,97,99,107>>,                          \* back
    <<99,97,108,108>>,                         \* call
    <<99,97,109,101>>,                         \* came
    <<101,97,99,104>>,                         \* each
    <<102,105,110,100>>,                       \* find
    <<103,105,118,101>>,                       \* give
    <<104,97,110,100>>,                        \* hand
    <<104,101,114,101>>,                       \* here
    <<107,101,101,112>>,                       \* keep
    <<107,105,110,100>>,                       \* kind
    <<107,110,111,119>>,                       \* know
    <<108,97,115,116>>,                        \* last
    <<108,101,102,116>>,                       \* left
    <<108,105,102,101>>,                       \* life
    <<108,105,118,101>>,                       \* live
    <<108,111,111,107>>,                       \* look
    <<109,97,100,101>>,                        \* made
    <<109,97,107,101>>,                        \* make
    <<109,111,115,116>>,                       \* most
    <<109,111,118,101>>,                       \* move
    <<109,117,115,116>>,                       \* must
    <<110,97,109,101>>,                        \* name
    <<110,101,101,100>>,                       \* need
    <<111,110,108,121>>,                       \* only
    <<111,112,101,110>>,                       \* open
    <<112,97,114,116>>,                        \* part
    <<112,108,97,121>>,                        \* play
    <<114,105,103,104,116>>,                   \* right
    <<115,97,105,100>>,                        \* said
    <<115,97,109,101>>,                        \* same
    <<115,101,101,109>>,                       \* seem
    <<115,104,111,119>>,                       \* show
    <<115,105,100,101>>,                       \* side
    <<116,97,107,101>>,                        \* take
    <<116,101,108,108>>,                       \* tell
    <<116,117,114,110>>,                       \* turn
    <<119,97,110,116>>,                        \* want
    <<119,101,108,108>>,                       \* well
    <<119,101,110,116>>,                       \* went
    <<119,101,114,101>>,                       \* were
    <<119,104,97,116>>,                        \* what
    <<119,104,101,110>>,                       \* when
    <<119,104,101,114,101>>,                   \* where
    <<119,104,105,99,104>>,                    \* which
    <<119,105,108,108>>,                       \* will
    <<119,105,116,104>>,                       \* with
    <<119,111,114,100>>,                       \* word
    <<119,111,114,107>>,                       \* work
    <<119,111,114,108,100>>,                   \* world
    <<121,101,97,114>>,                        \* year
    <<104,101,108,108,111>>,                   \* hello
    <<99,111,109,112,117,116,101,114>>,        \* computer
    <<98,114,97,105,108,108,101>>,             \* braille
    <<115,121,115,116,101,109>>,               \* system
    <<107,101,121,98,111,97,114,100>>,         \* keyboard
    <<116,121,112,105,110,103>>,               \* typing
    <<105,110,112,117,116>>                    \* input
    >>

\* The object's three fields as one value.
Self == [dictionary |-> dictionary, word_count |-> word_count,
         learned_fixes |-> learned_fixes]

\* dict.get(key, default)
get(d, key, default) == IF key \in DOMAIN d THEN d[key] ELSE default

\* d[key] = value
put(d, key, value) == (key :> value) @@ d

\* add_word setting the count to 1 instead of raising it.
add_word_count_once(self, word) ==
    LET w == strip(lower(word))
    IN  IF w # << >>
        THEN [self EXCEPT !.dictionary = @ \cup {w},
                          !.word_count = put(@, w, 1)]
        ELSE self

add_word(self, word) ==
    LET w == strip(lower(word))
    IN  IF w # << >>
        THEN [self EXCEPT !.dictionary = @ \cup {w},
                          !.word_count = put(@, w, get(@, w, 0) + 1)]
        ELSE self

learn_correction(self, wrong_word, correct_word) ==
    LET wrong == lower(wrong_word)
        correct == lower(correct_word)
        remembered == [self EXCEPT !.learned_fixes = put(@, wrong, correct)]
    IN  add_word(remembered, correct)

\* for word in words: self.add_word(word), over words[lo..hi] in list order.
\* The range is halved, and the state after the first half is computed (the
\* comparison) before the second half starts, so that the evaluation does
\* not nest once per word.
RECURSIVE load_basic_words(_, _, _)
load_basic_words(self, lo, hi) ==
    IF lo > hi THEN self
    ELSE IF lo = hi THEN add_word(self, BasicWords[lo])
    ELSE LET mid == (lo + hi) \div 2
             half == load_basic_words(self, lo, mid)
         IN  IF half = half THEN load_basic_words(half, mid + 1, hi) ELSE half

\* __init__: three empty containers, then load_basic_words.
Constructed ==
    load_basic_words([dictionary |-> {}, word_count |-> << >>, learned_fixes |-> << >>],
                     1, Len(BasicWords))

(***************************************************************************)
(* Floating point.  A Python float is an IEEE 754 binary64 number; the     *)
(* scores of find_suggestions are computed and compared as such.  A        *)
(* non-negative float is kept here as the pair [m, e] of value m * 2^e,    *)
(* where m is 0 or has exactly 53 bits.  The arithmetic needs integers of  *)
(* more than 100 bits, which are kept as sequences of 15-bit limbs, least  *)
(* significant limb first and without leading zero limbs (<< >> is 0).     *)
(* Every operation computes the exact result and rounds it once to the     *)
(* nearest float, ties to the even mantissa, as the hardware does.         *)
(***************************************************************************)

LimbBits == 15

Base == 32768

MantissaBits == 53

Limb(a, i) == IF i \in DOMAIN a THEN a[i] ELSE 0

RECURSIVE BigTrim(_)
BigTrim(a) ==
    IF a # << >> /\ a[Len(a)] = 0 THEN BigTrim(SubSeq(a, 1, Len(a) - 1)) ELSE a

RECURSIVE BigOfInt(_)
BigOfInt(n) == IF n = 0 THEN << >> ELSE <<n % Base>> \o BigOfInt(n \div Base)

RECURSIVE AddFrom(_, _, _, _)
AddFrom(a, b, i, carry) ==
    IF i > Max2(Len(a), Len(b))
    THEN IF carry = 0 THEN << >> ELSE <<carry>>
    ELSE LET s == Limb(a, i) + Limb(b, i) + carry
         IN  <<s % Base>> \o AddFrom(a, b, i + 1, s \div Base)

BigAdd(a, b) == AddFrom(a, b, 1, 0)

RECURSIVE SubFrom(_, _, _, _)
SubFrom(a, b, i, borrow) ==
    IF i > Len(a) THEN << >>
    ELSE LET s == a[i] - Limb(b, i) - borrow
         IN  IF s < 0 THEN <<s + Base>> \o SubFrom(a, b, i + 1, 1)
                      ELSE <<s>> \o SubFrom(a, b, i + 1, 0)

\* a - b for a >= b
BigSub(a, b) == BigTrim(SubFrom(a, b, 1, 0))

RECURSIVE MulFrom(_, _, _, _)
MulFrom(a, n, i, carry) ==
    IF i > Len(a)
    THEN IF carry = 0 THEN << >> ELSE <<carry>>
    ELSE LET p == a[i] * n + carry
         IN  <<p % Base>> \o MulFrom(a, n, i + 1, p \div Base)

\* a * n for 0 <= n < Base
BigMulInt(a, n) == BigTrim(MulFrom(a, n, 1, 0))

\* a * Base^k
BigShiftLimbs(a, k) == IF a = << >> THEN << >> ELSE [i \in 1..k |-> 0] \o a

RECURSIVE MulAcc(_, _, _)
MulAcc(a, b, j) ==
    IF j > Len(b) THEN << >>
    ELSE BigAdd(BigShiftLimbs(BigMulInt(a, b[j]), j - 1), MulAcc(a, b, j + 1))

BigMul(a, b) == MulAcc(a, b, 1)

\* Quotient and remainder of the limbs a[1..i] preceded by the remainder r
\* of the limbs above them, by n.
RECURSIVE DivFrom(_, _, _, _)
DivFrom(a, n, i, r) ==
    IF i = 0 THEN [q |-> << >>, r |-> r]
    ELSE LET cur == r * Base + a[i]
             rest == DivFrom(a, n, i - 1, cur % n)
         IN  [q |-> Append(rest.q, cur \div n), r |-> rest.r]

\* a divided by n, 0 < n <= Base: quotient q and remainder r
BigDivInt(a, n) ==
    LET d == DivFrom(a, n, Len(a), 0) IN [q |-> BigTrim(d.q), r |-> d.r]

BigLess(a, b) ==
    IF Len(a) # Len(b) THEN Len(a) < Len(b)
    ELSE \E i \in DOMAIN a : a[i] < b[i] /\ \A j \in (i + 1)..Len(a) : a[j] = b[j]

RECURSIVE IntBits(_)
IntBits(n) == IF n = 0 THEN 0 ELSE 1 + IntBits(n \div 2)

BitLength(a) == IF a = << >> THEN 0 ELSE LimbBits * (Len(a) - 1) + IntBits(a[Len(a)])

\* a * 2^t
BigShl(a, t) == BigShiftLimbs(BigMulInt(a, 2 ^ (t % LimbBits)), t \div LimbBits)

\* a \div 2^t
BigShr(a, t) == BigDivInt(SubSeq(a, (t \div LimbBits) + 1, Len(a)), 2 ^ (t % LimbBits)).q

\* The float nearest to n * 2^e, ties to even.
RoundToFloat(n, e) ==
    IF n = << >> THEN [m |-> << >>, e |-> 0]
    ELSE LET bits == BitLength(n)
         IN  IF bits <= MantissaBits
             THEN [m |-> BigShl(n, MantissaBits - bits), e |-> e - (MantissaBits - bits)]
             ELSE LET t == bits - MantissaBits
                      q == BigShr(n, t)
                      r == BigSub(n, BigShl(q, t))
                      half == BigShl(<<1>>, t - 1)
                      up == BigLess(half, r) \/ (r = half /\ q[1] % 2 = 1)
                      m == IF up THEN BigAdd(q, <<1>>) ELSE q
                  IN  IF BitLength(m) > MantissaBits
                      THEN [m |-> BigShr(m, 1), e |-> e + t + 1]
                      ELSE [m |-> m, e |-> e + t]

\* x / y of two ints, 0 <= x, 0 < y <= Base: the quotient is taken to more
\* than 53 bits and a last bit is set when the division left a remainder.
float_div(x, y) ==
    LET d == BigDivInt(BigShl(BigOfInt(x), 5 * LimbBits), y)
        sticky == IF d.r = 0 THEN << >> ELSE <<1>>
    IN  RoundToFloat(BigAdd(BigShl(d.q, 1), sticky), 0 - (5 * LimbBits + 1))

float_add(a, b) ==
    LET e == Min2(a.e, b.e)
    IN  RoundToFloat(BigAdd(BigShl(a.m, a.e - e), BigShl(b.m, b.e - e)), e)

\* a - b for a >= b
float_sub(a, b) ==
    LET e == Min2(a.e, b.e)
    IN  RoundToFloat(BigSub(BigShl(a.m, a.e - e), BigShl(b.m, b.e - e)), e)

float_mul(a, b) == RoundToFloat(BigMul(a.m, b.m), a.e + b.e)

float_less(a, b) ==
    IF a.m = << >> THEN b.m # << >>
    ELSE IF b.m = << >> THEN FALSE
    ELSE a.e < b.e \/ (a.e = b.e /\ BigLess(a.m, b.m))

(***************************************************************************)
(* Matcher.                                                                *)
(***************************************************************************)

\* The float 1.0.
One == RoundToFloat(<<1>>, 0)

\* The floats the literals 0.7 and 0.3 denote: the floats nearest to 7/10 and
\* to 3/10.
SimilarityWeight == float_div(7, 10)

FrequencyWeight == float_div(3, 10)

\* total_score with the frequency term left out.
total_score_without_frequency(word, dict_word, distance, frequency_score) ==
    LET similarity_score ==
            float_sub(One, float_div(distance, Max2(Len(word), Len(dict_word))))
    IN  float_mul(similarity_score, SimilarityWeight)

\* similarity_score = 1.0 - (distance / max(len(word), len(dict_word)))
\* total_score = similarity_score * 0.7 + (frequency_score / 100) * 0.3
total_score(word, dict_word, distance, frequency_score) ==
    LET similarity_score ==
            float_sub(One, float_div(distance, Max2(Len(word), Len(dict_word))))
    IN  float_add(float_mul(similarity_score, SimilarityWeight),
                  float_mul(float_div(frequency_score, 100), FrequencyWeight))

\* The comparison of two scores the sort makes.
ScoreLess(a, b) == float_less(a, b)

\* for dict_word in self.dictionary: the words of the set in the order of
\* iteration, `order` being a sequence that lists them in that order.
IterationOrder(self, order) == SelectSeq(order, LAMBDA w : w \in self.dictionary)

\* The entries of a set one after the other.
RECURSIVE Listed(_)
Listed(set) ==
    IF set = {} THEN << >>
    ELSE LET e == CHOOSE m \in set : TRUE
         IN  <<e>> \o Listed(set \ {e})

\* The loop of find_suggestions over the dictionary: every word is measured,
\* and the words within max_distance (`near`) are scored and appended in
\* iteration order.  total_score depends on dict_word through its length
\* only, so it is worked out once for the words that agree in length,
\* distance and frequency.
Candidates(self, iter, word, max_distance) ==
    LET measured ==
            [i \in DOMAIN iter |->
                [word |-> iter[i],
                 distance |-> calculate_similarity(word, iter[i]),
                 frequency_score |-> get(self.word_count, iter[i], 1)]]
        alike(s) == <<Len(s.word), s.distance, s.frequency_score>>
        appended(near, scored, scores) ==
            List([i \in DOMAIN near |->
                    [word |-> near[i].word,
                     score |-> scores[CHOOSE n \in DOMAIN scored :
                                         scored[n] = alike(near[i])],
                     distance |-> near[i].distance]])
        score_each(near, scored) ==
            appended(near, scored,
                     List([n \in DOMAIN scored |->
                             total_score(word,
                                         (CHOOSE s \in Range(near) : alike(s) = scored[n]).word,
                                         scored[n][2], scored[n][3])]))
        score_near(near) ==
            score_each(near, Listed({ alike(near[i]) : i \in DOMAIN near }))
    IN  score_near(SelectSeq(measured, LAMBDA s : s.distance <= max_distance))

\* list.sort(key = score, reverse = True): a stable sort, so entries of equal
\* score keep the order they were appended in.  Entry i lands behind every
\* entry of higher score and every earlier entry of equal score.
sort_by_score(suggestions) ==
    LET n == Len(suggestions)
        place == List([i \in 1..n |->
                    1 + Cardinality({j \in 1..n :
                            \/ ScoreLess(suggestions[i].score, suggestions[j].score)
                            \/ /\ j < i
                               /\ ~ScoreLess(suggestions[j].score, suggestions[i].score)})])
    IN  List([p \in 1..n |-> suggestions[CHOOSE i \in 1..n : place[i] = p]])

\* seq[:n] of Python, n of either sign.
slice_to(seq, n) ==
    LET stop == IF n >= 0 THEN Min2(n, Len(seq)) ELSE Max2(Len(seq) + n, 0)
    IN  SubSeq(seq, 1, stop)

\* max_distance with the half of the length rounded up.
max_distance_rounded_up(word) == Min2(3, ((Len(word) + 1) \div 2) + 1)

\* max_distance = min(3, len(word) // 2 + 1)
max_distance_of(word) == Min2(3, (Len(word) \div 2) + 1)

\* find_suggestions without the look-up in learned_fixes.
find_suggestions_without_fixes(self, order, word_in, max_suggestions) ==
    LET words(top) == [i \in DOMAIN top |-> top[i].word]
        search(word) ==
            IF word \in self.dictionary
            THEN <<word>>
            ELSE words(slice_to(sort_by_score(
                                    Candidates(self, IterationOrder(self, order), word,
                                               max_distance_of(word))),
                                max_suggestions))
    IN  search(lower(word_in))

\* find_suggestions on an object whose dictionary is iterated in the order
\* `order`; `word` is the lowercased word, `top` the slice of the sorted
\* suggestions.
find_suggestions(self, order, word_in, max_suggestions) ==
    LET words(top) == [i \in DOMAIN top |-> top[i].word]
        search(word) ==
            IF word \in self.dictionary
            THEN <<word>>
            ELSE IF word \in DOMAIN self.learned_fixes
                 THEN <<self.learned_fixes[word]>>
                 ELSE words(slice_to(sort_by_score(
                                         Candidates(self, IterationOrder(self, order), word,
                                                    max_distance_of(word))),
                                     max_suggestions))
    IN  search(lower(word_in))

(***************************************************************************)
(* The order of iteration.  `for dict_word in self.dictionary` visits the  *)
(* set in the order of its hash table, which follows the hashes of the     *)
(* strings; these are drawn anew for every process, so any order of the    *)
(* words can be the order of a run.  Within a run the order is fixed: the  *)
(* table is rebuilt, and the order can change, only when a set that was    *)
(* built word by word grows past 306 words, well beyond the 101 of the     *)
(* basic list and the few a run of the model adds.  A call shows of the    *)
(* order only how it places words of equal score among those it returns.   *)
(* `known` is what has been shown so far: the set of pairs <<a, b>> such   *)
(* that a is visited before b, closed under transitivity.                  *)
(***************************************************************************)

\* known, and moreover `first` is visited before each of `others`.
FirstOf(known, first, others) ==
    LET upto == {first} \cup {p[1] : p \in {q \in known : q[2] = first}}
        from == others \cup {p[2] : p \in {q \in known : q[1] \in others}}
    IN  known \cup (upto \X from)

\* The ways the next n entries of the sorted list can turn out: the next
\* entry is one of best score among those remaining, and among these one
\* that no other is known to precede; it is then known to precede them all.
RECURSIVE RevealOrder(_, _, _)
RevealOrder(known, remaining, n) ==
    IF n = 0 \/ remaining = {} THEN {known}
    ELSE LET best == {c \in remaining :
                        \A d \in remaining : ~ScoreLess(c.score, d.score)}
             firsts == {c \in best : \A d \in best : <<d.word, c.word>> \notin known}
         IN  UNION { RevealOrder(FirstOf(known, c.word, {d.word : d \in best \ {c}}),
                                 remaining \ {c}, n - 1) : c \in firsts }

\* The words of a set one after the other, in an order that agrees with
\* known.
RECURSIVE Chain(_, _)
Chain(known, words) ==
    IF words = {} THEN << >>
    ELSE LET m == CHOOSE w \in words : \A v \in words : <<v, w>> \notin known
         IN  <<m>> \o Chain(known, words \ {m})

\* An order of iteration of the set `words` that agrees with known: the
\* words known puts in order, then the others.
Visit(known, words) ==
    LET placed == {w \in words : \E p \in known : w = p[1] \/ w = p[2]}
        others == words \ placed
    IN  Chain(known, placed)
        \o SelectSeq(BasicWords, LAMBDA w : w \in others)
        \o Chain(known, others \ Range(BasicWords))

\* What can be known of the order after find_suggestions has returned, for
\* each order of iteration that agrees with known.
find_suggestions_orders(self, known, word_in, max_suggestions) ==
    LET reveal(suggestions) ==
            RevealOrder(known, Range(suggestions),
                        Len(slice_to(suggestions, max_suggestions)))
        search(word) ==
            IF word \in self.dictionary \/ word \in DOMAIN self.learned_fixes
            THEN {known}
            ELSE reveal(Candidates(self, Visit(known, self.dictionary), word,
                                   max_distance_of(word)))
    IN  search(lower(word_in))

(***************************************************************************)
(* Correction pipeline.                                                    *)
(***************************************************************************)

\* any(c in 'DWQKOP' for c in text.upper())
has_braille_key(text) ==
    \E c \in Range(upper(text)) : c \in Range(<<68,87,81,75,79,80>>)

\* text.split(), after the conversion of Braille input if needed.
words_of(text_in) ==
    split(IF has_braille_key(text_in) THEN convert_braille_input(text_in) ELSE text_in)

\* clean_word = ''.join(c for c in word if c.isalpha())
clean(word) == SelectSeq(word, isalpha)

\* The cases of the loop body of autocorrect that follow the call of
\* find_suggestions.
result_of(word, suggestions) ==
    IF suggestions # << >>
    THEN [original |-> word, suggestions |-> suggestions, best_match |-> suggestions[1]]
    ELSE [original |-> word, suggestions |-> << >>, best_match |-> word]

\* The body of the loop of autocorrect for one word of text.split().
correction_result(self, order, word, max_suggestions) ==
    IF clean(word) # << >>
    THEN result_of(word, find_suggestions(self, order, clean(word), max_suggestions))
    ELSE [original |-> word, suggestions |-> <<word>>, best_match |-> word]

\* The loop of autocorrect over the words of text.split().
correct_each(self, order, words, max_suggestions) ==
    [i \in DOMAIN words |-> correction_result(self, order, words[i], max_suggestions)]

\* autocorrect leaving out the words that hold no letter.
autocorrect_skipping_symbols(self, order, text_in, max_suggestions) ==
    correct_each(self, order,
                 SelectSeq(words_of(text_in), LAMBDA w : clean(w) # << >>),
                 max_suggestions)

\* autocorrect on an object whose dictionary is iterated in the order `order`.
autocorrect(self, order, text_in, max_suggestions) ==
    correct_each(self, order, words_of(text_in), max_suggestions)

\* What can be known of the order after the calls of find_suggestions for
\* words[i], words[i+1], ... of the loop of autocorrect.
RECURSIVE RevealEach(_, _, _, _, _)
RevealEach(self, known, words, i, max_suggestions) ==
    IF i > Len(words) THEN {known}
    ELSE IF clean(words[i]) = << >>
         THEN RevealEach(self, known, words, i + 1, max_suggestions)
         ELSE UNION { RevealEach(self, shown, words, i + 1, max_suggestions) :
                        shown \in find_suggestions_orders(self, known, clean(words[i]),
                                                          max_suggestions) }

\* What can be known of the order after autocorrect has returned.
autocorrect_orders(self, known, text_in, max_suggestions) ==
    RevealEach(self, known, words_of(text_in), 1, max_suggestions)

(***************************************************************************)
(* Bounds and inputs of the model.                                         *)
(***************************************************************************)

\* No word is counted beyond MaxCount.
MaxCount == 2

\* max_suggestions ranges up to MaxSuggestions.
MaxSuggestions == 3

\* The strings of the edit-distance check have at most MaxLen characters.
MaxLen == 4

\* max_suggestions = 3, the default of autocorrect.
autocorrect_default == 3

\* Arguments of add_word:
\*   ""                    empty
\*   " \n"                 blank
\*   "\t<U+00C9><U+00A0>\n"  a new word, capital E with acute, between a tab and
\*                         a no-break space and a newline
AddInputs == { << >>, <<32,10>>, <<9,201,160,10>> }

\* Arguments <<wrong_word, correct_word>> of learn_correction:
\*   "He", "Hello"     wrong_word is no word of the dictionary
\*   "The", "Tell "    wrong_word is one, correct_word ends in a space
LearnInputs == { <<<<72,101>>, <<72,101,108,108,111>>>>, <<<<84,104,101>>, <<84,101,108,108,32>>>> }

\* Arguments <<word, max_suggestions>> of find_suggestions:
\*   "hell"            near to several words
\*   "The"             a word of the dictionary
\*   "<U+00E9><U+00E9>"    twice small e with acute, near to the new word only;
\*                     also with a negative max_suggestions
\*   "He"              learn_correction gives it a fix
\*   "<U+0130>bu"        begins with capital I with dot above, whose lowercase
\*                     is the two characters i (105) and combining dot above
\*                     (775): the lowercased word is longer than the word
\*   "jqx"             more than two edits away from every word
QueryInputs ==
    { <<<<104,101,108,108>>, MaxSuggestions>>, <<<<84,104,101>>, MaxSuggestions>>,
      <<<<233,233>>, 0 - 1>>, <<<<233,233>>, MaxSuggestions>>,
      <<<<72,101>>, 0>>, <<<<304,98,117>>, 1>>,
      <<<<106,113,120>>, 1>> }

\* Arguments of autocorrect: the first two are inputs of demo(); the third,
\* "<U+00E9>!\n?\tThe", holds no key and three words, one of them of symbols
\* only.
TextInputs == { <<104,101,108,111>>, <<68,87,32,104,101,108,108,111>>, <<233,33,10,63,9,84,104,101>>, << >> }

\* Arguments of convert_braille_input; the last is "<U+1E98><U+00DF>\n": w with
\* ring above, whose uppercase is W (87) and combining ring above (778), and
\* sharp s, whose uppercase is SS.
BrailleInputs == { <<68,75>>, <<100,119,32,104,101,108,108,111>>, <<81,120,32,80>>, <<7832,223,10>> }

NoCall == [op |-> "none"]

NoReturn == [call |-> NoCall, out |-> << >>]

LoadCalls == { [op |-> "load_basic_words"] }

AddCalls == { [op |-> "add_word", word |-> w] : w \in AddInputs }

LearnCalls ==
    { [op |-> "learn_correction", wrong_word |-> p[1], correct_word |-> p[2]] :
        p \in LearnInputs }

QueryCalls ==
    { [op |-> "find_suggestions", word |-> p[1], max_suggestions |-> p[2]] :
        p \in QueryInputs }

TextCalls ==
    { [op |-> "autocorrect", text |-> t, max_suggestions |-> k] :
        t \in TextInputs, k \in {0, autocorrect_default} }

BrailleCalls == { [op |-> "convert_braille_input", input_text |-> t] : t \in BrailleInputs }

\* The words whose counts a call raises.
CountedWords(c) ==
    IF c.op = "add_word" THEN {strip(lower(c.word))} \ {<< >>}
    ELSE IF c.op = "learn_correction" THEN {strip(lower(c.correct_word))} \ {<< >>}
    ELSE IF c.op = "load_basic_words" THEN Range(BasicWords)
    ELSE {}

(***************************************************************************)
(* The state machine: one SimpleBrailleAutocorrect object and its caller.  *)
(* `call` is the call the caller has made and the object has not yet       *)
(* served, `ret` the call just served with the value it returned, until    *)
(* the caller has taken it,                                                *)
(* `hash_order` what the calls served so far have shown of the order in    *)
(* which the dictionary is iterated.                                       *)
(***************************************************************************)

Init ==
    /\ dictionary = Constructed.dictionary
    /\ word_count = Constructed.word_count
    /\ learned_fixes = Constructed.learned_fixes
    /\ hash_order = {}
    /\ call = NoCall
    /\ ret = NoReturn

\* The caller makes its next call, as demo() does line after line.
Invoke ==
    /\ call = NoCall
    /\ ret = NoReturn
    /\ \E c \in LoadCalls \cup AddCalls \cup LearnCalls \cup QueryCalls \cup TextCalls
                  \cup BrailleCalls :
          /\ \A w \in CountedWords(c) : get(word_count, w, 0) < MaxCount
          /\ call' = c
    /\ UNCHANGED <<dictionary, word_count, learned_fixes, hash_order, ret>>

\* The caller takes the value returned, as demo() does when it prints it.
Proceed ==
    /\ ret # NoReturn
    /\ ret' = NoReturn
    /\ UNCHANGED <<dictionary, word_count, learned_fixes, hash_order, call>>

Store(self) ==
    /\ dictionary' = self.dictionary
    /\ word_count' = self.word_count
    /\ learned_fixes' = self.learned_fixes

Return(value) ==
    /\ ret' = [call |-> call, out |-> value]
    /\ call' = NoCall

\* load_basic_words called on the constructed object: every word of the list
\* is added once more.
LoadBasicWords ==
    /\ call.op = "load_basic_words"
    /\ Store(load_basic_words(Self, 1, Len(BasicWords)))
    /\ Return(<< >>)
    /\ UNCHANGED hash_order

AddWord ==
    /\ call.op = "add_word"
    /\ Store(add_word(Self, call.word))
    /\ Return(<< >>)
    /\ UNCHANGED hash_order

LearnCorrection ==
    /\ call.op = "learn_correction"
    /\ Store(learn_correction(Self, call.wrong_word, call.correct_word))
    /\ Return(<< >>)
    /\ UNCHANGED hash_order

\* find_suggestions counting its first suggestion as a use of that word.
FindSuggestionsCounting ==
    /\ call.op = "find_suggestions"
    /\ \E shown \in find_suggestions_orders(Self, hash_order, call.word,
                                            call.max_suggestions) :
          LET out == find_suggestions(Self, Visit(shown, dictionary), call.word,
                                      call.max_suggestions)
          IN  /\ hash_order' = shown
              /\ Return(out)
              /\ word_count' = IF out # << >> /\ out[1] \in DOMAIN word_count
                               THEN [word_count EXCEPT ![out[1]] = @ + 1]
                               ELSE word_count
    /\ UNCHANGED <<dictionary, learned_fixes>>

FindSuggestions ==
    /\ call.op = "find_suggestions"
    /\ \E shown \in find_suggestions_orders(Self, hash_order, call.word,
                                            call.max_suggestions) :
          /\ hash_order' = shown
          /\ Return(find_suggestions(Self, Visit(shown, dictionary), call.word,
                                     call.max_suggestions))
    /\ UNCHANGED <<dictionary, word_count, learned_fixes>>

Autocorrect ==
    /\ call.op = "autocorrect"
    /\ \E shown \in autocorrect_orders(Self, hash_order, call.text, call.max_suggestions) :
          /\ hash_order' = shown
          /\ Return(autocorrect(Self, Visit(shown, dictionary), call.text,
                                call.max_suggestions))
    /\ UNCHANGED <<dictionary, word_count, learned_fixes>>

ConvertBrailleInput ==
    /\ call.op = "convert_braille_input"
    /\ Return(convert_braille_input(call.input_text))
    /\ UNCHANGED <<dictionary, word_count, learned_fixes, hash_order>>

CalculateSimilarity ==
    /\ call.op = "calculate_similarity"
    /\ Return(calculate_similarity(call.word1, call.word2))
    /\ UNCHANGED <<dictionary, word_count, learned_fixes, hash_order>>

Next ==
    \/ Invoke
    \/ Proceed
    \/ LoadBasicWords
    \/ AddWord
    \/ LearnCorrection
    \/ FindSuggestions
    \/ Autocorrect
    \/ ConvertBrailleInput

Spec == Init /\ [][Next]_vars

TypeOK ==
    /\ DOMAIN word_count = dictionary
    /\ \A w \in dictionary : word_count[w] \in 1..MaxCount
    /\ hash_order \subseteq dictionary \X dictionary
    /\ \A p \in hash_order : p[1] # p[2]
    /\ \A p, q \in hash_order : p[2] = q[1] => <<p[1], q[2]>> \in hash_order

(***************************************************************************)
(* Specifications of the two pure functions on their own: the object is    *)
(* as constructed and the caller has made one call, drawn from all the     *)
(* inputs of the function within the bounds.                               *)
(***************************************************************************)

KeyOfDot(d) == CHOOSE key \in DOMAIN BRAILLE_KEYS : BRAILLE_KEYS[key] = d

Orderings(n) == { f \in [1..n -> 1..n] : \A i, j \in 1..n : f[i] = f[j] => i = j }

\* The designated keys of dot pattern p, in every order and every choice of
\* upper- or lowercase per key.
ChordStrings(p) ==
    { [i \in 1..Len(p) |-> IF shift[i] THEN KeyOfDot(p[o[i]])
                                       ELSE lower_char(KeyOfDot(p[o[i]]))[1]] :
        o \in Orderings(Len(p)), shift \in [1..Len(p) -> BOOLEAN] }

ChordCalls ==
    { [op |-> "convert_braille_input", input_text |-> t] :
        t \in UNION { ChordStrings(p) : p \in DOMAIN DOT_TO_LETTER } }

InitDecode ==
    /\ dictionary = Constructed.dictionary
    /\ word_count = Constructed.word_count
    /\ learned_fixes = Constructed.learned_fixes
    /\ hash_order = {}
    /\ call \in ChordCalls
    /\ ret = NoReturn

NextDecode == ConvertBrailleInput

SpecDecode == InitDecode /\ [][NextDecode]_vars

\* The letters a and b.
Alphabet == {97, 98}

Strings == UNION { [1..n -> Alphabet] : n \in 0..MaxLen }

DistanceCalls ==
    { [op |-> "calculate_similarity", word1 |-> a, word2 |-> b] : a \in Strings, b \in Strings }

InitDistance ==
    /\ dictionary = Constructed.dictionary
    /\ word_count = Constructed.word_count
    /\ learned_fixes = Constructed.learned_fixes
    /\ hash_order = {}
    /\ call \in DistanceCalls
    /\ ret = NoReturn

NextDistance == CalculateSimilarity

SpecDistance == InitDistance /\ [][NextDistance]_vars

(***************************************************************************)
(* The claims.                                                             *)
(***************************************************************************)

\* min(3, len(query) // 2 + 1), as the claims state it.
DistanceBound(query) == IF (Len(query) \div 2) + 1 < 3 THEN (Len(query) \div 2) + 1 ELSE 3

\* An order of iteration that agrees with what the calls have shown.
hash_order_now == Visit(hash_order, dictionary)

\* C1: with the dictionary holding only the basic word list, autocorrect("helo")
\* returns exactly one result and its best_match is "hello".
C1_HeloCorrectedToHello ==
    (/\ ret.call.op = "autocorrect"
     /\ ret.call.text = <<104,101,108,111>>
     /\ ret.call.max_suggestions = autocorrect_default
     /\ Self = Constructed)
    => (Len(ret.out) = 1 /\ ret.out[1].best_match = <<104,101,108,108,111>>)

\* C2 as stated: right after learn_correction(wrong, correct),
\* find_suggestions(wrong, n) is [lower(correct)] for every n >= 1, whatever
\* the dictionary holds.
C2_LearnedFixAlwaysWins ==
    ret.call.op = "learn_correction"
    => \A n \in 1..MaxSuggestions :
          find_suggestions(Self, hash_order_now, ret.call.wrong_word, n)
              = <<lower(ret.call.correct_word)>>

\* C2 (amended): right after learn_correction(wrong, correct), if lower(wrong)
\* is not itself a word of the dictionary, find_suggestions(wrong, n) is
\* [lower(correct)] for every n >= 1, also when dictionary words are closer to
\* wrong than correct is; if lower(wrong) is a word of the dictionary,
\* find_suggestions(wrong, n) is [lower(wrong)].
C2_LearnedFixPrecedence ==
    ret.call.op = "learn_correction"
    => \A n \in 1..MaxSuggestions :
          find_suggestions(Self, hash_order_now, ret.call.wrong_word, n)
              = IF lower(ret.call.wrong_word) \in dictionary
                THEN <<lower(ret.call.wrong_word)>>
                ELSE <<lower(ret.call.correct_word)>>

\* A fix was just learned for a word that is not in the dictionary, and some
\* dictionary word is closer to it than the learned correction.
C2_Witness ==
    /\ ret.call.op = "learn_correction"
    /\ lower(ret.call.wrong_word) \notin dictionary
    /\ \E w \in dictionary :
          calculate_similarity(lower(ret.call.wrong_word), w)
              < calculate_similarity(lower(ret.call.wrong_word), lower(ret.call.correct_word))

\* C3 as stated: every word find_suggestions(query, k) returns is within
\* min(3, len(query) // 2 + 1) edits of the lowercased query.
C3_AllSuggestionsWithinBound ==
    ret.call.op = "find_suggestions"
    => \A i \in DOMAIN ret.out :
          calculate_similarity(lower(ret.call.word), ret.out[i])
              <= DistanceBound(ret.call.word)

\* C3 (amended): when the lowercased query is a dictionary word or has no
\* learned fix, every word find_suggestions(query, k) returns is within
\* min(3, len(q) // 2 + 1) edits of q, the lowercased query.
C3_DistanceBound ==
    (/\ ret.call.op = "find_suggestions"
     /\ \/ lower(ret.call.word) \in dictionary
        \/ lower(ret.call.word) \notin DOMAIN learned_fixes)
    => \A i \in DOMAIN ret.out :
          calculate_similarity(lower(ret.call.word), ret.out[i])
              <= DistanceBound(lower(ret.call.word))

\* After the dictionary was changed, the fuzzy search returned a word exactly
\* at the bound of a query whose lowercase is longer than the query.
C3_Witness ==
    /\ ret.call.op = "find_suggestions"
    /\ lower(ret.call.word) \notin dictionary
    /\ lower(ret.call.word) \notin DOMAIN learned_fixes
    /\ Len(lower(ret.call.word)) > Len(ret.call.word)
    /\ Self # Constructed
    /\ \E i \in DOMAIN ret.out :
          calculate_similarity(lower(ret.call.word), ret.out[i])
              = DistanceBound(lower(ret.call.word))

\* C4: every value stored in learned_fixes is a word of the dictionary.
C4_LearnedValuesAreWords ==
    \A wrong \in DOMAIN learned_fixes : learned_fixes[wrong] \in dictionary

\* The capital letter of a key or, 32 code points further on, its small
\* letter.
IsKey(c, key) == c = key \/ c = key + 32

\* text is the designated keys of dot pattern p, each once, in some order and
\* in either case.
IsChordOf(text, p) ==
    /\ Len(text) = Len(p)
    /\ \A i \in DOMAIN text : \E key \in DOMAIN BRAILLE_KEYS : IsKey(text[i], key)
    /\ { BRAILLE_KEYS[key] : key \in { k \in DOMAIN BRAILLE_KEYS :
                                         \E i \in DOMAIN text : IsKey(text[i], k) } }
           = Range(p)

\* C5: for each of the 26 dot patterns, its designated keys in any order and
\* any case, given alone, decode to the one-character string of its letter.
C5_DecodeChord ==
    ret.call.op = "convert_braille_input"
    => \A p \in DOMAIN DOT_TO_LETTER :
          IsChordOf(ret.call.input_text, p) => ret.out = DOT_TO_LETTER[p]

\* Lowercase k then uppercase D, dots 4 and 1, were decoded to "c".
C5_Witness ==
    /\ ret.call.op = "convert_braille_input"
    /\ ret.call.input_text = <<107,68>>
    /\ ret.out = <<99>>

\* The text autocorrect splits: the decoded text when the uppercased text
\* holds a key.
SplitText(text) ==
    IF \E i \in DOMAIN upper(text) : upper(text)[i] \in DOMAIN BRAILLE_KEYS
    THEN convert_braille_input(text)
    ELSE text

\* The positions where a whitespace-separated token starts.
TokenStarts(text) ==
    { i \in DOMAIN text :
        text[i] \notin Whitespace /\ (i = 1 \/ text[i - 1] \in Whitespace) }

\* The n-th token: from the n-th start up to the next whitespace or the end.
Token(text, n) ==
    LET start == CHOOSE i \in TokenStarts(text) :
                     Cardinality({ j \in TokenStarts(text) : j <= i }) = n
        stop == CHOOSE j \in start..Len(text) :
                    /\ \A m \in start..j : text[m] \notin Whitespace
                    /\ j = Len(text) \/ text[j + 1] \in Whitespace
    IN  SubSeq(text, start, stop)

\* C6: autocorrect(text, k) returns one result per whitespace-separated token
\* of the (decoded) text, in order, result i carrying token i as its original;
\* best_match is suggestions[0] when there are suggestions and the original
\* token when there are none.
C6_ResultShape ==
    ret.call.op = "autocorrect"
    => LET text == SplitText(ret.call.text)
       IN  /\ Len(ret.out) = Cardinality(TokenStarts(text))
           /\ \A n \in DOMAIN ret.out :
                 /\ ret.out[n].original = Token(text, n)
                 /\ ret.out[n].suggestions # << >>
                        => ret.out[n].best_match = ret.out[n].suggestions[1]
                 /\ ret.out[n].suggestions = << >>
                        => ret.out[n].best_match = Token(text, n)

\* A decoded text of two tokens, the first without and the second with
\* suggestions.
C6_Witness ==
    /\ ret.call.op = "autocorrect"
    /\ ret.call.text = <<68,87,32,104,101,108,108,111>>
    /\ Len(ret.out) = 2
    /\ ret.out[1].suggestions = << >>
    /\ ret.out[1].best_match = <<98>>
    /\ ret.out[2].original = <<104,101,108,108,63>>
    /\ Len(ret.out[2].suggestions) > 1

\* frequencyOf(word): 0 for a word never counted.
FrequencyOf(self, w) == IF w \in DOMAIN self.word_count THEN self.word_count[w] ELSE 0

\* C7: from any reachable state, add_word(w) twice in a row for a w that is
\* not blank leaves the normalized w in the dictionary, raises its count by
\* exactly 2, raises the number of words by at most 1 and changes no other
\* count; for an empty or blank w it changes nothing.
C7_AddWordTwice ==
    \A w \in AddInputs :
        LET normalized == strip(lower(w))
            twice == add_word(add_word(Self, w), w)
        IN  IF normalized # << >>
            THEN /\ normalized \in twice.dictionary
                 /\ FrequencyOf(twice, normalized) = FrequencyOf(Self, normalized) + 2
                 /\ Cardinality(twice.dictionary) <= Cardinality(dictionary) + 1
                 /\ \A v \in (DOMAIN twice.word_count \cup DOMAIN word_count) \ {normalized} :
                       FrequencyOf(twice, v) = FrequencyOf(Self, v)
            ELSE twice = Self

\* add_word has just counted a word outside the basic list for the second
\* time.
C7_Witness ==
    /\ ret.call.op = "add_word"
    /\ strip(lower(ret.call.word)) # << >>
    /\ strip(lower(ret.call.word)) \notin Range(BasicWords)
    /\ strip(lower(ret.call.word)) \in dictionary
    /\ word_count[strip(lower(ret.call.word))] = 2

QueryOps == {"convert_braille_input", "find_suggestions", "autocorrect"}

\* The value the call `served` returns from an object in state `self` whose
\* dictionary is iterated in the order `order`.
Answer(self, order, served) ==
    IF served.op = "find_suggestions"
    THEN find_suggestions(self, order, served.word, served.max_suggestions)
    ELSE IF served.op = "autocorrect"
    THEN autocorrect(self, order, served.text, served.max_suggestions)
    ELSE convert_braille_input(served.input_text)

\* What can be known of the order of iteration after the call `served`.
Orders(self, known, served) ==
    IF served.op = "find_suggestions"
    THEN find_suggestions_orders(self, known, served.word, served.max_suggestions)
    ELSE IF served.op = "autocorrect"
    THEN autocorrect_orders(self, known, served.text, served.max_suggestions)
    ELSE {known}

\* C8: a step that serves convert_braille_input, find_suggestions or
\* autocorrect leaves dictionary, word_count and learned_fixes as they were,
\* and the same query asked again has one possible outcome, the value just
\* returned; a step that changes any of the three serves add_word or
\* learn_correction.
C8_QueriesNeverTeach ==
    [][ /\ (call.op \in QueryOps /\ ret'.call.op \in QueryOps)
            => /\ dictionary' = dictionary
               /\ word_count' = word_count
               /\ learned_fixes' = learned_fixes
               /\ Orders([dictionary |-> dictionary',
                          word_count |-> word_count',
                          learned_fixes |-> learned_fixes'],
                         hash_order', ret'.call) = {hash_order'}
               /\ ret'.out = Answer([dictionary |-> dictionary',
                                     word_count |-> word_count',
                                     learned_fixes |-> learned_fixes'],
                                    Visit(hash_order', dictionary'), ret'.call)
        /\ (\/ dictionary' # dictionary
            \/ word_count' # word_count
            \/ learned_fixes' # learned_fixes)
            => ret'.call.op \in {"load_basic_words", "add_word", "learn_correction"} ]_vars

\* A fuzzy search was served after the dictionary had been changed, and it
\* showed the order of two words of equal score.
C8_Witness ==
    /\ ret.call.op = "find_suggestions"
    /\ Len(ret.out) > 1
    /\ Self # Constructed
    /\ \E i, j \in DOMAIN ret.out : <<ret.out[i], ret.out[j]>> \in hash_order

\* total of claim C9 for candidate w, as the fraction num / den:
\*   0.7 * (1 - distance / longest) + 0.3 * frequency / 100
\*     = (700 * (longest - distance) + 3 * frequency * longest) / (1000 * longest).
Total(query, w) ==
    LET longest == IF Len(query) >= Len(w) THEN Len(query) ELSE Len(w)
        distance == calculate_similarity(query, w)
    IN  [num |-> 700 * (longest - distance) + 3 * word_count[w] * longest,
         den |-> 1000 * longest]

Greater(a, b) == a.num * b.den > b.num * a.den

\* C9: when the lowercased query is neither a dictionary word nor a key of
\* learned_fixes and k >= 0, find_suggestions(query, k) returns
\* min(k, number of admitted words) admitted words in non-increasing order of
\* total, and no admitted word left out has a greater total than a returned
\* one.
C9_FuzzyRanking ==
    (/\ ret.call.op = "find_suggestions"
     /\ lower(ret.call.word) \notin dictionary
     /\ lower(ret.call.word) \notin DOMAIN learned_fixes
     /\ ret.call.max_suggestions >= 0)
    => LET query == lower(ret.call.word)
           admitted == { w \in dictionary :
                           calculate_similarity(query, w) <= DistanceBound(query) }
           returned == Range(ret.out)
           expected == IF ret.call.max_suggestions <= Cardinality(admitted)
                       THEN ret.call.max_suggestions ELSE Cardinality(admitted)
       IN  /\ Len(ret.out) = expected
           /\ Cardinality(returned) = expected
           /\ returned \subseteq admitted
           /\ \A i, j \in DOMAIN ret.out :
                 i < j => ~Greater(Total(query, ret.out[j]), Total(query, ret.out[i]))
           /\ \A w \in admitted \ returned : \A v \in returned :
                 ~Greater(Total(query, w), Total(query, v))

\* The fuzzy search returned two words equally far from the query and equally
\* long, the more frequent one first: the frequency decided their order.
C9_Witness ==
    /\ ret.call.op = "find_suggestions"
    /\ lower(ret.call.word) \notin dictionary
    /\ lower(ret.call.word) \notin DOMAIN learned_fixes
    /\ ret.call.max_suggestions >= 2
    /\ \E i, j \in DOMAIN ret.out :
          /\ i < j
          /\ Len(ret.out[i]) = Len(ret.out[j])
          /\ calculate_similarity(lower(ret.call.word), ret.out[i])
                = calculate_similarity(lower(ret.call.word), ret.out[j])
          /\ word_count[ret.out[i]] > word_count[ret.out[j]]

\* The strings one insertion, deletion or substitution away from s, among the
\* strings of at most MaxLen characters.  (A shortest edit script can be
\* ordered deletions first, insertions last, so it never needs a string longer
\* than the longer of its two ends.)
Edits(s) ==
    { SubSeq(s, 1, i - 1) \o SubSeq(s, i + 1, Len(s)) : i \in 1..Len(s) }
    \cup { [s EXCEPT ![i] = c] : i \in 1..Len(s), c \in Alphabet }
    \cup IF Len(s) < MaxLen
         THEN { SubSeq(s, 1, i) \o <<c>> \o SubSeq(s, i + 1, Len(s)) :
                  i \in 0..Len(s), c \in Alphabet }
         ELSE {}

\* The strings at most n edits away from s.
RECURSIVE Within(_, _)
Within(s, n) ==
    IF n = 0 THEN {s}
    ELSE LET nearer == Within(s, n - 1)
         IN  nearer \cup UNION { Edits(t) : t \in nearer }

\* The least number of edits that turn a into b.
EditDistance(a, b) ==
    CHOOSE n \in 0..(2 * MaxLen) :
        /\ b \in Within(a, n)
        /\ n = 0 \/ b \notin Within(a, n - 1)

\* C10: calculate_similarity(word1, word2) is the Levenshtein distance of the
\* two strings, the least number of single-character insertions, deletions and
\* substitutions turning word1 into word2; it is 0 exactly when they are equal
\* and the same with the arguments exchanged.
C10_Levenshtein ==
    ret.call.op = "calculate_similarity"
    => /\ ret.out = EditDistance(ret.call.word1, ret.call.word2)
       /\ ret.out = 0 <=> ret.call.word1 = ret.call.word2
       /\ ret.out = calculate_similarity(ret.call.word2, ret.call.word1)

\* Two strings of full length that share no position: every character has to
\* be substituted.
C10_Witness ==
    /\ ret.call.op = "calculate_similarity"
    /\ Len(ret.call.word1) = MaxLen
    /\ Len(ret.call.word2) = MaxLen
    /\ ret.out = MaxLen

====
